---- MODULE Spec2Model ----
(***************************************************************************)
(* A model of the Runlayer-style OAuth mock server                         *)
(* (test/integration/oauth_runlayer_mock.py).                              *)
(*                                                                         *)
(* Python str values are sequences of one-character strings, so that       *)
(* concatenation (f-strings), str.startswith and urlencode are computed    *)
(* character by character.  Python's None is the one-element sequence      *)
(* <<"None">>, which no str equals (its element is not a character).       *)
(* A dict is a function whose DOMAIN is its key set.                       *)
(***************************************************************************)
EXTENDS Integers, Sequences, FiniteSets, Bags, TLC

VARIABLES
    PORT,                \* module global, line 37
    BASE_URL,            \* module global, line 38
    registered_clients,  \* module global, line 41
    issued_tokens,       \* module global, line 42
    inflight,            \* bag of requests suspended at their handler's await
    last,                \* the latest completed request, its response, and the
                         \* two stores as they were when its handler body ran
    minted,              \* history: every code /authorize has stored so far
    redeemed,            \* history: code -> number of 200 code redemptions
    contested,           \* history: codes that were stored while two or more
                         \* code redemptions of them were suspended at once
    presented,           \* history: the codes a /token authorization_code
                         \* request has presented since /authorize stored them
    registrations,       \* history: number of /register requests answered
    FAKE_SERVERS,        \* registry/server.py module global, line 51
    args,                \* the arguments of the evaluation tool call, or the
                         \* limit and cursor a registry client holds
    reply,               \* the latest reply of the registry or of a tool
    pages                \* history: the pages a registry client was served

\* The state of the evaluation package: the fake registry and the tool
\* servers.  They are processes of their own; no OAuth handler touches them.
evalServers == <<FAKE_SERVERS, args, reply, pages>>

\* The state of the OAuth mock server.
oauthMock == <<PORT, BASE_URL, registered_clients, issued_tokens, inflight,
               last, minted, redeemed, contested, presented, registrations>>

vars == <<PORT, BASE_URL, registered_clients, issued_tokens, inflight, last,
          minted, redeemed, contested, presented, registrations,
          FAKE_SERVERS, args, reply, pages>>

---------------------------------------------------------------------------
\* Bounds of the model.

\* outcomes of secrets.token_hex drawn for authorization codes
MaxCodes == 2
\* /token requests suspended at their await at the same time (ConcSpec)
MaxConcurrent == 2
\* outcomes of secrets.token_hex drawn for client ids (RegSpec)
MaxClients == 2

---------------------------------------------------------------------------
\* String literals of the source.

None == <<"None">>

\* "None", what an f-string makes of None
S_None == <<"N", "o", "n", "e">>
\* "authorization_code"
S_authorization_code == <<"a", "u", "t", "h", "o", "r", "i", "z", "a", "t",
    "i", "o", "n", "_", "c", "o", "d", "e">>
\* "refresh_token"
S_refresh_token == <<"r", "e", "f", "r", "e", "s", "h", "_", "t", "o", "k",
    "e", "n">>
\* "Bearer"
S_Bearer == <<"B", "e", "a", "r", "e", "r">>
\* "Bearer "
S_BearerPrefix == <<"B", "e", "a", "r", "e", "r", " ">>
\* "invalid_grant", the RFC 6749 error code, in place of the detail
S_InvalidCode_ErrorCode == <<"i", "n", "v", "a", "l", "i", "d", "_", "g", "r",
    "a", "n", "t">>
\* "Invalid authorization code"
S_InvalidCode == <<"I", "n", "v", "a", "l", "i", "d", " ", "a", "u", "t", "h",
    "o", "r", "i", "z", "a", "t", "i", "o", "n", " ", "c", "o", "d", "e">>
\* "Unsupported grant_type: "
S_Unsupported == <<"U", "n", "s", "u", "p", "p", "o", "r", "t", "e", "d", " ",
    "g", "r", "a", "n", "t", "_", "t", "y", "p", "e", ":", " ">>
\* "mock-auth-code-"
S_mock_auth_code == <<"m", "o", "c", "k", "-", "a", "u", "t", "h", "-", "c",
    "o", "d", "e", "-">>
\* "mock-access-token-"
S_mock_access_token == <<"m", "o", "c", "k", "-", "a", "c", "c", "e", "s",
    "s", "-", "t", "o", "k", "e", "n", "-">>
\* "mock-refresh-token-"
S_mock_refresh_token == <<"m", "o", "c", "k", "-", "r", "e", "f", "r", "e",
    "s", "h", "-", "t", "o", "k", "e", "n", "-">>
\* "mock-client-"
S_mock_client == <<"m", "o", "c", "k", "-", "c", "l", "i", "e", "n", "t",
    "-">>
\* "mock-secret-"
S_mock_secret == <<"m", "o", "c", "k", "-", "s", "e", "c", "r", "e", "t",
    "-">>
\* "http://localhost:"
S_localhost == <<"h", "t", "t", "p", ":", "/", "/", "l", "o", "c", "a", "l",
    "h", "o", "s", "t", ":">>
\* "8000"
S_8000 == <<"8", "0", "0", "0">>
\* "/mcp"
S_mcp == <<"/", "m", "c", "p">>
\* "/.well-known/oauth-protected-resource"
S_prm == <<"/", ".", "w", "e", "l", "l", "-", "k", "n", "o", "w", "n", "/",
    "o", "a", "u", "t", "h", "-", "p", "r", "o", "t", "e", "c", "t", "e", "d",
    "-", "r", "e", "s", "o", "u", "r", "c", "e">>
\* 'Bearer error="invalid_token", resource_metadata="'
S_challenge == <<"B", "e", "a", "r", "e", "r", " ", "e", "r", "r", "o", "r",
    "=", "\"", "i", "n", "v", "a", "l", "i", "d", "_", "t", "o", "k", "e",
    "n", "\"", ",", " ", "r", "e", "s", "o", "u", "r", "c", "e", "_", "m",
    "e", "t", "a", "d", "a", "t", "a", "=", "\"">>
\* "code"
S_code == <<"c", "o", "d", "e">>
\* "state"
S_state == <<"s", "t", "a", "t", "e">>
\* "unknown"
S_unknown == <<"u", "n", "k", "n", "o", "w", "n">>
\* "unauthorized"
S_unauthorized == <<"u", "n", "a", "u", "t", "h", "o", "r", "i", "z", "e",
    "d">>
\* "Authentication required"
S_AuthRequired == <<"A", "u", "t", "h", "e", "n", "t", "i", "c", "a", "t",
    "i", "o", "n", " ", "r", "e", "q", "u", "i", "r", "e", "d">>
\* "application/json"
S_json == <<"a", "p", "p", "l", "i", "c", "a", "t", "i", "o", "n", "/", "j",
    "s", "o", "n">>
\* "Bearer" (the token_type of a token set)
S_token_type == S_Bearer
\* "/register"
S_register == <<"/", "r", "e", "g", "i", "s", "t", "e", "r">>
\* "/authorize"
S_authorize == <<"/", "a", "u", "t", "h", "o", "r", "i", "z", "e">>
\* "/token"
S_token == <<"/", "t", "o", "k", "e", "n">>

---------------------------------------------------------------------------
\* Python built-ins the handlers use.

\* d.get(k): the value, or None when k is no key of d
Get(d, k) == IF k \in DOMAIN d THEN d[k] ELSE None

\* d.get(k, default)
GetOr(d, k, default) == IF k \in DOMAIN d THEN d[k] ELSE default

\* d[k] = v left out: the dict stays as it was
Put_Dropped(d, k, v) == d

\* d = {k: v} in place of d[k] = v: the dict is replaced
Put_Replace(d, k, v) == [x \in {k} |-> v]

\* d[k] = v: adds the key, or replaces the value of a key already there
Put(d, k, v) == [x \in DOMAIN d \cup {k} |-> IF x = k THEN v ELSE d[x]]

\* d without the key k
Without(d, k) == [x \in DOMAIN d \ {k} |-> d[x]]

\* {}
EmptyDict == [x \in {} |-> x]

\* s.startswith(p)
StartsWith(s, p) == Len(s) >= Len(p) /\ SubSeq(s, 1, Len(p)) = p

\* f"{v}": a str as it is, None as "None"
Format(v) == IF v = None THEN S_None ELSE v

\* not v, for v a str or None
Falsy(v) == v = None \/ v = <<>>

---------------------------------------------------------------------------
\* urllib.parse.urlencode, as line 123 calls it (quote_via = quote_plus).

\* the characters quote() never escapes: letters, digits and "_.-~"
AlwaysSafe ==
    {"a", "b", "c", "d", "e", "f", "g", "h", "i", "j", "k", "l", "m", "n",
     "o", "p", "q", "r", "s", "t", "u", "v", "w", "x", "y", "z",
     "A", "B", "C", "D", "E", "F", "G", "H", "I", "J", "K", "L", "M", "N",
     "O", "P", "Q", "R", "S", "T", "U", "V", "W", "X", "Y", "Z",
     "0", "1", "2", "3", "4", "5", "6", "7", "8", "9", "_", ".", "-", "~"}

\* the two upper-case hex digits of an escaped character's byte
ByteHex(c) ==
    CASE c = "&" -> <<"2", "6">>
      [] c = "=" -> <<"3", "D">>
      [] c = "?" -> <<"3", "F">>
      [] c = "/" -> <<"2", "F">>
      [] c = ":" -> <<"3", "A">>
      [] c = "%" -> <<"2", "5">>
      [] c = "+" -> <<"2", "B">>
      [] c = "#" -> <<"2", "3">>

\* quote_plus of one character: kept, a space as "+", or "%XX"
QuoteChar(c) ==
    IF c \in AlwaysSafe THEN <<c>>
    ELSE IF c = " " THEN <<"+">>
    ELSE <<"%">> \o ByteHex(c)

RECURSIVE quote_plus(_)
quote_plus(s) ==
    IF s = <<>> THEN <<>> ELSE QuoteChar(Head(s)) \o quote_plus(Tail(s))

\* urlencode of a sequence of <<key, value>> pairs: k=v joined by "&"
RECURSIVE urlencode(_)
urlencode(pairs) ==
    IF pairs = <<>> THEN <<>>
    ELSE LET kv == quote_plus(Head(pairs)[1]) \o <<"=">>
                   \o quote_plus(Head(pairs)[2])
         IN  IF Len(pairs) = 1 THEN kv
             ELSE kv \o <<"&">> \o urlencode(Tail(pairs))

---------------------------------------------------------------------------
\* secrets.token_hex

HexDigits == <<"0", "1", "2", "3", "4", "5", "6", "7", "8", "9",
               "a", "b", "c", "d", "e", "f">>

\* The k first outcomes of secrets.token_hex(nbytes): 2 * nbytes hex digits.
\* The model draws from k of the 16^(2 * nbytes) outcomes; outcome i is
\* all zeros but for its last digit.
token_hex(nbytes, k) ==
    { [j \in 1..(2 * nbytes) |->
          IF j = 2 * nbytes THEN HexDigits[i] ELSE "0"] : i \in 1..k }

\* Line 112: the codes /authorize can mint.
AuthCodes == { S_mock_auth_code \o h : h \in token_hex(16, MaxCodes) }

\* Line 112 drawing a code that was drawn before.
FreshCodes_Reuse(used) == AuthCodes

\* Line 112 draws 128 random bits from the operating system's generator and
\* the handler does not look the code up before storing it.  The data model
\* takes such identifiers to be unique within the process lifetime; the
\* model does the same and draws each code among those not minted before.
FreshCodes(used) == AuthCodes \ used

\* Lines 145, 148, 153, 156: the random part of an access or refresh token.
\* Tokens are not stored and nothing compares them: two outcomes.
TokenHexOutcomes == token_hex(16, 2)

---------------------------------------------------------------------------
\* Module start-up, lines 37-42.

DecimalDigits == <<"0", "1", "2", "3", "4", "5", "6", "7", "8", "9">>

DigitValue(c) == CHOOSE d \in 0..9 : DecimalDigits[d + 1] = c

\* int(s), for s a sequence of decimal digits
RECURSIVE ParseInt(_)
ParseInt(s) ==
    IF s = <<>> THEN 0
    ELSE 10 * ParseInt(SubSeq(s, 1, Len(s) - 1)) + DigitValue(s[Len(s)])

\* f"{n}", for n a natural number
RECURSIVE FormatInt(_)
FormatInt(n) ==
    IF n < 10 THEN <<DecimalDigits[n + 1]>>
    ELSE FormatInt(n \div 10) \o <<DecimalDigits[(n % 10) + 1]>>

\* os.environ as the process may find it: PORT set, or BASE_URL set
Environments ==
    { [PORT |-> <<"9", "0", "0", "0">>],
      [BASE_URL |-> <<"h", "t", "t", "p", "s", ":", "/", "/", "m">>] }

\* Line 37
InitialPort(environ) == ParseInt(GetOr(environ, "PORT", S_8000))

\* Line 38
InitialBaseUrl(environ) ==
    GetOr(environ, "BASE_URL", S_localhost \o FormatInt(InitialPort(environ)))

\* The two stores, as `last` records them.
Stores == [tokens |-> issued_tokens, clients |-> registered_clients]

---------------------------------------------------------------------------
\* The evaluation package: the data of the fake registry
\* (eval/src/mcpproxy_eval/registry/server.py).
\*
\* An Optional value is a sequence of no element (None) or of one element
\* (the value), so that None and a value of any type can be compared.  Ids,
\* urls, dates and descriptions are only ever copied and compared whole and
\* stay strings; a name is a sequence of characters because line 279 splits
\* it.

\* None, as the value of an Optional field or parameter
Absent == <<>>

\* a value of an Optional field or parameter
Present(v) == <<v>>

\* Lines 51-232: FAKE_SERVERS as the module defines it
InitialServers ==
    <<
     \* Lines 52-69
     [id |-> "01129bff-3d65-4e3d-8e82-6f2f269f818c",
      name |-> <<"d", "i", "c", "e", "-", "r", "o", "l", "l", "e", "r">>,
      url |-> Present("stdio://uvx mcp-dice"),
      description |->
         "A dice rolling MCP server for gaming and probability calculations",
      created_at |-> "2025-01-15T10:00:00.000Z",
      updated_at |-> "2025-01-15T10:00:00.000Z",
      repository |-> Present([url |-> "https://github.com/fake/dice-mcp-server",
                              source |-> "github",
                              id |-> "123456789"]),
      version_detail |-> Present([version |-> "1.0.0",
                                  release_date |-> "2025-01-15T10:00:00Z",
                                  is_latest |-> TRUE]),
      packages |-> Absent],
     \* Lines 70-87
     [id |-> "02229bff-3d65-4e3d-8e82-6f2f269f818d",
      name |-> <<"w", "e", "a", "t", "h", "e", "r", "-", "s", "e", "r", "v",
                 "i", "c", "e">>,
      url |-> Present("stdio://uvx mcp-weather"),
      description |->
         "Weather information MCP server with forecasts and current conditions",
      created_at |-> "2025-01-15T10:05:00.000Z",
      updated_at |-> "2025-01-15T10:05:00.000Z",
      repository |-> Present([url |-> "https://github.com/fake/weather-mcp-server",
                              source |-> "github",
                              id |-> "123456790"]),
      version_detail |-> Present([version |-> "2.1.0",
                                  release_date |-> "2025-01-15T10:05:00Z",
                                  is_latest |-> TRUE]),
      packages |-> Absent],
     \* Lines 88-105
     [id |-> "03329bff-3d65-4e3d-8e82-6f2f269f818e",
      name |-> <<"r", "e", "s", "t", "a", "u", "r", "a", "n", "t", "-", "f",
                 "i", "n", "d", "e", "r">>,
      url |-> Present("stdio://uvx mcp-restaurant"),
      description |->
         "Restaurant menu and search MCP server for food discovery",
      created_at |-> "2025-01-15T10:10:00.000Z",
      updated_at |-> "2025-01-15T10:10:00.000Z",
      repository |-> Present([url |-> "https://github.com/fake/restaurant-mcp-server",
                              source |-> "github",
                              id |-> "123456791"]),
      version_detail |-> Present([version |-> "1.5.0",
                                  release_date |-> "2025-01-15T10:10:00Z",
                                  is_latest |-> TRUE]),
      packages |-> Absent],
     \* Lines 106-123
     [id |-> "04429bff-3d65-4e3d-8e82-6f2f269f818f",
      name |-> <<"m", "o", "r", "s", "e", "-", "t", "r", "a", "n", "s", "l",
                 "a", "t", "o", "r">>,
      url |-> Present("stdio://uvx mcp-morse"),
      description |->
         "Morse code translation MCP server for encoding and decoding text",
      created_at |-> "2025-01-15T10:15:00.000Z",
      updated_at |-> "2025-01-15T10:15:00.000Z",
      repository |-> Present([url |-> "https://github.com/fake/morse-mcp-server",
                              source |-> "github",
                              id |-> "123456792"]),
      version_detail |-> Present([version |-> "1.0.0",
                                  release_date |-> "2025-01-15T10:15:00Z",
                                  is_latest |-> TRUE]),
      packages |-> Absent],
     \* Lines 124-141
     [id |-> "05529bff-3d65-4e3d-8e82-6f2f269f8190",
      name |-> <<"c", "a", "l", "c", "u", "l", "a", "t", "o", "r">>,
      url |-> Present("stdio://uvx mcp-calculator"),
      description |->
         "Mathematical calculation MCP server with basic and advanced operations",
      created_at |-> "2025-01-15T10:20:00.000Z",
      updated_at |-> "2025-01-15T10:20:00.000Z",
      repository |-> Present([url |-> "https://github.com/fake/calculator-mcp-server",
                              source |-> "github",
                              id |-> "123456793"]),
      version_detail |-> Present([version |-> "3.0.0",
                                  release_date |-> "2025-01-15T10:20:00Z",
                                  is_latest |-> TRUE]),
      packages |-> Absent],
     \* Lines 142-159
     [id |-> "06629bff-3d65-4e3d-8e82-6f2f269f8191",
      name |-> <<"t", "r", "a", "n", "s", "l", "a", "t", "o", "r">>,
      url |-> Present("stdio://uvx mcp-translator"),
      description |->
         "Multi-language translation MCP server supporting major languages",
      created_at |-> "2025-01-15T10:25:00.000Z",
      updated_at |-> "2025-01-15T10:25:00.000Z",
      repository |-> Present([url |-> "https://github.com/fake/translator-mcp-server",
                              source |-> "github",
                              id |-> "123456794"]),
      version_detail |-> Present([version |-> "2.0.0",
                                  release_date |-> "2025-01-15T10:25:00Z",
                                  is_latest |-> TRUE]),
      packages |-> Absent],
     \* Lines 160-177
     [id |-> "07729bff-3d65-4e3d-8e82-6f2f269f8192",
      name |-> <<"t", "i", "m", "e", "-", "s", "e", "r", "v", "i", "c", "e">>,
      url |-> Present("stdio://uvx mcp-time"),
      description |->
         "Time and timezone MCP server for temporal operations",
      created_at |-> "2025-01-15T10:30:00.000Z",
      updated_at |-> "2025-01-15T10:30:00.000Z",
      repository |-> Present([url |-> "https://github.com/fake/time-mcp-server",
                              source |-> "github",
                              id |-> "123456795"]),
      version_detail |-> Present([version |-> "1.2.0",
                                  release_date |-> "2025-01-15T10:30:00Z",
                                  is_latest |-> TRUE]),
      packages |-> Absent],
     \* Lines 178-195
     [id |-> "08829bff-3d65-4e3d-8e82-6f2f269f8193",
      name |-> <<"j", "o", "k", "e", "-", "g", "e", "n", "e", "r", "a", "t",
                 "o", "r">>,
      url |-> Present("stdio://uvx mcp-jokes"),
      description |->
         "Joke and humor MCP server for entertainment and conversation",
      created_at |-> "2025-01-15T10:35:00.000Z",
      updated_at |-> "2025-01-15T10:35:00.000Z",
      repository |-> Present([url |-> "https://github.com/fake/jokes-mcp-server",
                              source |-> "github",
                              id |-> "123456796"]),
      version_detail |-> Present([version |-> "1.1.0",
                                  release_date |-> "2025-01-15T10:35:00Z",
                                  is_latest |-> TRUE]),
      packages |-> Absent],
     \* Lines 196-213
     [id |-> "09929bff-3d65-4e3d-8e82-6f2f269f8194",
      name |-> <<"c", "o", "l", "o", "r", "-", "p", "a", "l", "e", "t", "t",
                 "e">>,
      url |-> Present("stdio://uvx mcp-color"),
      description |->
         "Color manipulation and palette MCP server for design tools",
      created_at |-> "2025-01-15T10:40:00.000Z",
      updated_at |-> "2025-01-15T10:40:00.000Z",
      repository |-> Present([url |-> "https://github.com/fake/color-mcp-server",
                              source |-> "github",
                              id |-> "123456797"]),
      version_detail |-> Present([version |-> "1.0.0",
                                  release_date |-> "2025-01-15T10:40:00Z",
                                  is_latest |-> TRUE]),
      packages |-> Absent],
     \* Lines 214-231
     [id |-> "10029bff-3d65-4e3d-8e82-6f2f269f8195",
      name |-> <<"r", "a", "n", "d", "o", "m", "-", "g", "e", "n", "e", "r",
                 "a", "t", "o", "r">>,
      url |-> Present("stdio://uvx mcp-random"),
      description |->
         "Random number and data generation MCP server for testing and simulation",
      created_at |-> "2025-01-15T10:45:00.000Z",
      updated_at |-> "2025-01-15T10:45:00.000Z",
      repository |-> Present([url |-> "https://github.com/fake/random-mcp-server",
                              source |-> "github",
                              id |-> "123456798"]),
      version_detail |-> Present([version |-> "2.0.0",
                                  release_date |-> "2025-01-15T10:45:00Z",
                                  is_latest |-> TRUE]),
      packages |-> Absent]
    >>

\* The evaluation package before its first request.
EvalInit ==
    /\ FAKE_SERVERS = InitialServers
    /\ args = Absent
    /\ reply = [op |-> "start"]
    /\ pages = <<>>

\* Lines 37-42: the mock server after its module has been loaded.
MockInit(environ) ==
    /\ PORT = InitialPort(environ)
    /\ BASE_URL = InitialBaseUrl(environ)
    /\ registered_clients = EmptyDict
    /\ issued_tokens = EmptyDict
    /\ inflight = EmptyBag
    /\ last = [op |-> "start"]
    /\ minted = {}
    /\ redeemed = [c \in AuthCodes |-> 0]
    /\ contested = {}
    /\ presented = {}
    /\ registrations = 0

Init ==
    /\ \E environ \in Environments : MockInit(environ)
    /\ EvalInit

---------------------------------------------------------------------------
\* History of concurrent redemptions.

\* the suspended /token requests that will try to redeem code c
Redeeming(fl, c) ==
    { r \in BagToSet(fl) :
        /\ r.kind = "token"
        /\ Get(r.form, "grant_type") = S_authorization_code
        /\ Get(r.form, "code") = c }

\* how many of them there are
NumRedeeming(fl, c) ==
    BagCardinality([r \in Redeeming(fl, c) |-> CopiesIn(r, fl)])

\* the stored codes that two or more suspended requests will try to redeem
NowContested(tokens, fl) ==
    { c \in DOMAIN tokens : NumRedeeming(fl, c) >= 2 }

---------------------------------------------------------------------------
\* GET /authorize, lines 95-127.

\* Line 103 declared with a default: resource is optional.
RequiredParams_ResourceOptional == {"client_id", "redirect_uri", "state"}

\* Lines 97-99 and 103: the parameters declared Query(...).
RequiredParams == {"client_id", "redirect_uri", "state", "resource"}

\* The parameters refused where the handler looks the client up in the
\* registry: a client_id that is no key of it counts as missing.
MissingParams_UnknownClient(query) ==
    (RequiredParams \ DOMAIN query)
    \cup (IF Get(query, "client_id") \in DOMAIN registered_clients
          THEN {} ELSE {"client_id"})

\* The required parameters a query string lacks: any, and FastAPI answers
\* 422 naming them without calling the handler.  A parameter given with an
\* empty value (resource=) is present: str has no minimum length.
MissingParams(query) == RequiredParams \ DOMAIN query

\* Lines 115-120 with line 119 left out: the challenge is not stored.
Grant_NoChallenge(query) ==
    [client_id |-> query.client_id,
     redirect_uri |-> query.redirect_uri,
     resource |-> Get(query, "resource"),
     code_challenge |-> None]

\* Lines 115-120: the record stored under the code.
Grant(query) ==
    [client_id |-> query.client_id,
     redirect_uri |-> query.redirect_uri,
     resource |-> Get(query, "resource"),
     code_challenge |-> Get(query, "code_challenge")]

\* Lines 123-125 with the parameters pasted in unencoded.
RedirectUrl_Unencoded(redirect_uri, auth_code, state) ==
    redirect_uri \o <<"?">> \o S_code \o <<"=">> \o auth_code
        \o <<"&">> \o S_state \o <<"=">> \o state

\* Lines 123-125: the redirect target.
RedirectUrl(redirect_uri, auth_code, state) ==
    redirect_uri \o <<"?">>
        \o urlencode(<< <<S_code, auth_code>>, <<S_state, state>> >>)

\* The query strings the model sends.
ValidQuery ==
    [client_id |-> <<"a">>, redirect_uri |-> <<"c", "b">>,
     state |-> <<"s">>, resource |-> <<"r">>]

PkceQuery ==
    [client_id |-> <<"b">>, redirect_uri |-> <<"c", "?", "x", "=", "1">>,
     state |-> <<"x", " ", "&", "=", "%", "+">>, resource |-> <<"r", "/">>,
     response_type |-> S_code, code_challenge |-> <<"h">>,
     code_challenge_method |-> <<"S", "2", "5", "6">>]

EmptyResourceQuery == [ValidQuery EXCEPT !.resource = <<>>]

AuthorizeQueries ==
    {ValidQuery, PkceQuery, EmptyResourceQuery, EmptyDict}
    \cup { [p \in DOMAIN ValidQuery \ {m} |-> ValidQuery[p]] :
              m \in RequiredParams }
    \cup { [p \in DOMAIN PkceQuery \ {m} |-> PkceQuery[p]] :
              m \in {"resource"} }

\* Lines 96-126: what FastAPI and the handler do with the query string.
\* The handler awaits nothing, so the event loop runs it as one step.
AuthorizeBody(query) ==
    IF MissingParams(query) # {}
    THEN /\ last' = [op |-> "authorize", req |-> query, pre |-> Stores,
                     resp |-> [status |-> 422,
                               missing |-> MissingParams(query)]]
         /\ UNCHANGED <<issued_tokens, minted>>
    ELSE \E auth_code \in FreshCodes(minted) :
         /\ issued_tokens' = Put(issued_tokens, auth_code, Grant(query))
         /\ minted' = minted \cup {auth_code}
         /\ last' = [op |-> "authorize", req |-> query, pre |-> Stores,
                     resp |-> [status |-> 302,
                               location |-> RedirectUrl(query.redirect_uri,
                                                auth_code, query.state)]]

\* Lines 95-126: a /authorize request handled from its arrival to its
\* response with no other request handled in between.
authorize(query) ==
    /\ AuthorizeBody(query)
    /\ contested' = contested \cup NowContested(issued_tokens', inflight)
    /\ UNCHANGED <<evalServers, PORT, BASE_URL, registered_clients, inflight, redeemed,
                   presented, registrations>>

\* Line 95: the request has arrived and the event loop has not run its
\* handler yet; other requests are handled meanwhile.
authorize_suspend(query) ==
    /\ BagCardinality(inflight) < MaxConcurrent
    /\ inflight' = inflight
                     (+) SetToBag({[kind |-> "authorize", query |-> query]})
    /\ UNCHANGED <<evalServers, PORT, BASE_URL, registered_clients, issued_tokens, last,
                   minted, redeemed, contested, presented, registrations>>

\* Lines 96-126, for a request that was waiting for the event loop.
authorize_resume(r) ==
    /\ BagIn(r, inflight)
    /\ r.kind = "authorize"
    /\ inflight' = inflight (-) SetToBag({r})
    /\ AuthorizeBody(r.query)
    /\ contested' = contested \cup NowContested(issued_tokens', inflight')
    /\ UNCHANGED <<evalServers, PORT, BASE_URL, registered_clients, redeemed, presented,
                   registrations>>

---------------------------------------------------------------------------
\* POST /token, lines 130-159.

\* Line 138 without its membership test.
CodeRejected_FalsyOnly(code, tokens) == Falsy(code)

\* Line 138 with its membership test turned round.
CodeRejected_StoredRefused(code, tokens) ==
    Falsy(code) \/ code \in DOMAIN tokens

\* Line 138: the code is refused.
CodeRejected(code, tokens) == Falsy(code) \/ code \notin DOMAIN tokens

\* Line 142 revoking, with the code, every grant of the same client.
Pop_RevokesClient(tokens, code) ==
    [x \in { d \in DOMAIN tokens :
                tokens[d].client_id # tokens[code].client_id } |-> tokens[x]]

\* Line 142 as issued_tokens.clear(): every grant goes with the code.
Pop_ClearsStore(tokens, code) == EmptyDict

\* Line 142 left out: the used code stays.
Pop_KeepsCode(tokens, code) == tokens

\* Line 142: issued_tokens after pop(code), for code a key.
Pop(tokens, code) == Without(tokens, code)

\* Lines 144-149 and 152-157 with the refresh token left out.
TokenSet_NoRefresh(h1, h2) ==
    [access_token |-> S_mock_access_token \o h1,
     token_type |-> S_token_type,
     expires_in |-> 3600]

\* Lines 144-149 and 152-157: a token set made of two token_hex outcomes.
TokenSet(h1, h2) ==
    [access_token |-> S_mock_access_token \o h1,
     token_type |-> S_token_type,
     expires_in |-> 3600,
     refresh_token |-> S_mock_refresh_token \o h2]

\* Line 159 without the received value.
UnsupportedDetail_NoValue(grant_type) == S_Unsupported

\* Line 159: the detail of the unsupported grant_type error.
UnsupportedDetail(grant_type) == S_Unsupported \o Format(grant_type)

\* The form bodies the model sends: every grant_type case, with the code
\* absent, empty, never minted (z), or one /authorize mints or may mint.
TokenForms ==
    {EmptyDict, [grant_type |-> S_authorization_code],
     [grant_type |-> S_refresh_token]}
    \cup { [grant_type |-> S_authorization_code, code |-> c] :
              c \in AuthCodes \cup {<<>>, <<"z">>} }
    \cup { [code |-> c] : c \in AuthCodes }
    \cup { [grant_type |-> <<"p", "w">>, code |-> c] : c \in AuthCodes }
    \cup { [grant_type |-> S_refresh_token, refresh_token |-> <<"t">>,
            code |-> c] : c \in AuthCodes }

\* Lines 134-159: what the handler does with the form once it has it.
\* Nothing in these lines awaits, so the event loop runs them as one step.
TokenBody(form) ==
    LET grant_type == Get(form, "grant_type")
        code == Get(form, "code")
    IN  IF grant_type = S_authorization_code
        THEN IF CodeRejected(code, issued_tokens)
             THEN /\ last' = [op |-> "token", req |-> form, pre |-> Stores,
                              resp |-> [status |-> 400,
                                        detail |-> S_InvalidCode]]
                  /\ UNCHANGED <<issued_tokens, redeemed>>
             ELSE IF code \notin DOMAIN issued_tokens
             THEN \* dict.pop raises KeyError: an unhandled error
                  /\ last' = [op |-> "token", req |-> form, pre |-> Stores,
                              resp |-> [status |-> 500]]
                  /\ UNCHANGED <<issued_tokens, redeemed>>
             ELSE /\ issued_tokens' = Pop(issued_tokens, code)
                  /\ redeemed' = [redeemed EXCEPT ![code] = @ + 1]
                  /\ \E h1, h2 \in TokenHexOutcomes :
                       last' = [op |-> "token", req |-> form, pre |-> Stores,
                                resp |-> [status |-> 200,
                                          body |-> TokenSet(h1, h2)]]
        ELSE IF grant_type = S_refresh_token
        THEN /\ \E h1, h2 \in TokenHexOutcomes :
                  last' = [op |-> "token", req |-> form, pre |-> Stores,
                           resp |-> [status |-> 200,
                                     body |-> TokenSet(h1, h2)]]
             /\ UNCHANGED <<issued_tokens, redeemed>>
        ELSE /\ last' = [op |-> "token", req |-> form, pre |-> Stores,
                         resp |-> [status |-> 400,
                                   detail |-> UnsupportedDetail(grant_type)]]
             /\ UNCHANGED <<issued_tokens, redeemed>>

\* History: the stored-at-some-time code that the form of a /token
\* authorization_code request presents, if any.
Presents(form) ==
    IF Get(form, "grant_type") = S_authorization_code
    THEN {Get(form, "code")} \cap minted
    ELSE {}

\* Lines 131-159: a /token request handled from its arrival to its response
\* with no other request handled in between.
token(form) ==
    /\ TokenBody(form)
    /\ presented' = presented \cup Presents(form)
    /\ contested' = contested \cup NowContested(issued_tokens', inflight)
    /\ UNCHANGED <<evalServers, PORT, BASE_URL, registered_clients, inflight, minted,
                   registrations>>

\* Line 133: the handler is suspended at `await request.form()`, its form
\* not yet looked at, and other requests are handled meanwhile; at most
\* MaxConcurrent are suspended at once.
token_suspend(form) ==
    /\ BagCardinality(inflight) < MaxConcurrent
    /\ inflight' = inflight (+) SetToBag({[kind |-> "token", form |-> form]})
    /\ contested' = contested \cup NowContested(issued_tokens, inflight')
    /\ UNCHANGED <<evalServers, PORT, BASE_URL, registered_clients, issued_tokens, last,
                   minted, redeemed, presented, registrations>>

\* Lines 134-159, for a handler suspended at line 133: it resumes.
token_resume(r) ==
    /\ BagIn(r, inflight)
    /\ r.kind = "token"
    /\ inflight' = inflight (-) SetToBag({r})
    /\ TokenBody(r.form)
    /\ presented' = presented \cup Presents(r.form)
    /\ contested' = contested \cup NowContested(issued_tokens', inflight')
    /\ UNCHANGED <<evalServers, PORT, BASE_URL, registered_clients, minted, registrations>>

---------------------------------------------------------------------------
\* POST /register, lines 71-92.

\* Line 77: the client ids /register can mint where one client registers.
ClientIds == { S_mock_client \o h : h \in token_hex(8, 1) }

\* Line 77: the client ids /register can mint where several clients
\* register.
ClientIdPool == { S_mock_client \o h : h \in token_hex(8, MaxClients) }

\* Line 77 deriving the client id from the client's name.
NewClientIds_FromName(ids, body) ==
    { S_mock_client \o GetOr(body, "client_name", S_unknown) }

\* Line 77 draws 64 random bits and line 80 stores under the outcome
\* without looking it up.  As for the codes, the model draws each client id
\* among the outcomes `ids` that are no key of the registry.
NewClientIds(ids, body) == ids \ DOMAIN registered_clients

\* Line 78
ClientSecrets == { S_mock_secret \o h : h \in token_hex(16, 1) }

\* Line 84 as body.get("redirect_uris"): None when there are none.
ClientRecord_UrisOrNone(client_id, client_secret, body) ==
    [client_id |-> client_id,
     client_secret |-> client_secret,
     client_name |-> GetOr(body, "client_name", S_unknown),
     redirect_uris |-> Get(body, "redirect_uris")]

\* Lines 75 and 80-85: the record stored.
ClientRecord(client_id, client_secret, body) ==
    [client_id |-> client_id,
     client_secret |-> client_secret,
     client_name |-> GetOr(body, "client_name", S_unknown),
     redirect_uris |-> GetOr(body, "redirect_uris", <<>>)]

\* Lines 75 and 87-92: the record returned.
RegistrationResponse(client_id, client_secret, body) ==
    [client_id |-> client_id,
     client_secret |-> client_secret,
     client_name |-> GetOr(body, "client_name", S_unknown),
     redirect_uris |-> GetOr(body, "redirect_uris", <<>>)]

\* The JSON bodies the model sends.
RegisterBodies ==
    {EmptyDict,
     [client_name |-> <<"n">>, redirect_uris |-> << <<"c", "b">> >>]}

\* Lines 75-92: what the handler does with the body once it has it.
\* Nothing in these lines awaits.  The client id is drawn among the
\* outcomes `ids`.
RegisterBody(body, ids) ==
    /\ \E client_id \in NewClientIds(ids, body),
          client_secret \in ClientSecrets :
          /\ registered_clients' =
                Put(registered_clients, client_id,
                    ClientRecord(client_id, client_secret, body))
          /\ last' = [op |-> "register", req |-> body, pre |-> Stores,
                      resp |-> [status |-> 200,
                                body |-> RegistrationResponse(client_id,
                                             client_secret, body)]]
    /\ registrations' = registrations + 1

\* Lines 74-92: what the handler does with the request body as it was
\* sent.  request.json() raises on a body that is no JSON text, and line 75
\* raises on a JSON value that has no get (an array): either way the error
\* is handled nowhere and the server answers 500.
RegisterRequest(raw, ids) ==
    IF raw.kind = "object"
    THEN RegisterBody(raw.value, ids)
    ELSE /\ last' = [op |-> "register", req |-> raw, pre |-> Stores,
                     resp |-> [status |-> 500]]
         /\ UNCHANGED <<registered_clients, registrations>>

\* Lines 71-92: a /register request handled from its arrival to its
\* response with no other request handled in between.
register_client_among(body, ids) ==
    /\ RegisterBody(body, ids)
    /\ UNCHANGED <<evalServers, PORT, BASE_URL, issued_tokens, inflight, minted, redeemed,
                   contested, presented>>

\* Line 74: the handler is suspended at `await request.json()`, the body
\* as it was sent not yet parsed, and other requests are handled meanwhile.
register_suspend(body) ==
    /\ BagCardinality(inflight) < MaxConcurrent
    /\ inflight' = inflight
                     (+) SetToBag({[kind |-> "register", body |-> body]})
    /\ UNCHANGED <<evalServers, PORT, BASE_URL, registered_clients, issued_tokens, last,
                   minted, redeemed, contested, presented, registrations>>

\* Lines 75-92, for a handler suspended at line 74: it resumes.
register_resume(r, ids) ==
    /\ BagIn(r, inflight)
    /\ r.kind = "register"
    /\ inflight' = inflight (-) SetToBag({r})
    /\ RegisterRequest(r.body, ids)
    /\ UNCHANGED <<evalServers, PORT, BASE_URL, issued_tokens, minted, redeemed,
                   contested, presented>>

\* Lines 71-92, where one client registers.
register_client(body) == register_client_among(body, ClientIds)

---------------------------------------------------------------------------
\* GET or POST /mcp, lines 162-192.

\* Line 170 testing for the scheme name alone, without the space after it.
Authenticated_SchemeOnly(auth_header) == StartsWith(auth_header, S_Bearer)

\* Line 170
Authenticated(auth_header) == StartsWith(auth_header, S_BearerPrefix)

\* Line 178: the WWW-Authenticate header of the 401 response.
Challenge(base_url) == S_challenge \o base_url \o S_prm \o <<"\"">>

\* Lines 171-181
Unauthorized(base_url) ==
    [status |-> 401,
     content |-> [error |-> S_unauthorized, message |-> S_AuthRequired],
     headers |-> [WWW_Authenticate |-> Challenge(base_url),
                  Content_Type |-> S_json]]

\* Lines 184-192 numbering the response after the grants in the store.
InitializeResult_CountsGrants ==
    [status |-> 200,
     body |-> [jsonrpc |-> "2.0", id |-> Cardinality(DOMAIN issued_tokens),
               result |-> [protocolVersion |-> "2024-11-05",
                           capabilities |-> [tools |-> EmptyDict],
                           serverInfo |-> [name |-> "runlayer-mock",
                                           version |-> "1.0.0"]]]]

\* Lines 184-192
InitializeResult ==
    [status |-> 200,
     body |-> [jsonrpc |-> "2.0", id |-> 1,
               result |-> [protocolVersion |-> "2024-11-05",
                           capabilities |-> [tools |-> EmptyDict],
                           serverInfo |-> [name |-> "runlayer-mock",
                                           version |-> "1.0.0"]]]]

\* Line 162
McpMethods == {"GET", "POST"}

\* The request headers the model sends: none, or an Authorization value.
McpHeaders ==
    {EmptyDict}
    \cup { [Authorization |-> v] :
              v \in { S_Bearer, S_BearerPrefix, S_BearerPrefix \o <<"x">>,
                      <<"b", "e", "a", "r", "e", "r", " ", "x">>,
                      <<"B", "a", "s", "i", "c", " ", "x">> } }

\* Lines 162-192 keeping the header it was given: the Authorization value
\* goes into issued_tokens.
mcp_endpoint_RecordsHeader(method, headers) ==
    /\ LET auth_header == GetOr(headers, "Authorization", <<>>)
       IN  /\ last' = [op |-> "mcp", method |-> method, req |-> headers,
                       pre |-> Stores,
                       resp |-> IF ~Authenticated(auth_header)
                                THEN Unauthorized(BASE_URL)
                                ELSE InitializeResult]
           /\ issued_tokens' =
                 Put(issued_tokens, auth_header, [seen |-> TRUE])
    /\ UNCHANGED <<evalServers, PORT, BASE_URL, registered_clients,
                   inflight, minted, redeemed, contested, presented,
                   registrations>>

\* Lines 168-192: what the handler does with the request.
McpBody(method, headers) ==
    LET auth_header == GetOr(headers, "Authorization", <<>>)
    IN  last' = [op |-> "mcp", method |-> method, req |-> headers,
                 pre |-> Stores,
                 resp |-> IF ~Authenticated(auth_header)
                          THEN Unauthorized(BASE_URL)
                          ELSE InitializeResult]

\* Lines 168-192, for a request that was waiting for the event loop.
mcp_resume(r) ==
    /\ BagIn(r, inflight)
    /\ r.kind = "mcp"
    /\ inflight' = inflight (-) SetToBag({r})
    /\ McpBody(r.method, r.headers)
    /\ UNCHANGED <<evalServers, PORT, BASE_URL, registered_clients, issued_tokens,
                   minted, redeemed, contested, presented, registrations>>

\* Lines 162-192
mcp_endpoint(method, headers) ==
    /\ LET auth_header == GetOr(headers, "Authorization", <<>>)
       IN  last' = [op |-> "mcp", method |-> method, req |-> headers,
                    pre |-> Stores,
                    resp |-> IF ~Authenticated(auth_header)
                             THEN Unauthorized(BASE_URL)
                             ELSE InitializeResult]
    /\ UNCHANGED <<evalServers, PORT, BASE_URL, registered_clients, issued_tokens,
                   inflight, minted, redeemed, contested, presented,
                   registrations>>

---------------------------------------------------------------------------
\* The discovery documents, lines 45-68, and the route table.

\* Lines 45, 56, 71, 95, 130, 162, 195: the decorators, each a path, the
\* methods it answers and the handler it calls.
Routes ==
    { [methods |-> {"GET"}, endpoint |-> "protected_resource_metadata",
       path |-> <<"/", ".", "w", "e", "l", "l", "-", "k", "n", "o", "w", "n",
                  "/", "o", "a", "u", "t", "h", "-", "p", "r", "o", "t", "e",
                  "c", "t", "e", "d", "-", "r", "e", "s", "o", "u", "r", "c",
                  "e">>],
      [methods |-> {"GET"}, endpoint |-> "authorization_server_metadata",
       path |-> <<"/", ".", "w", "e", "l", "l", "-", "k", "n", "o", "w", "n",
                  "/", "o", "a", "u", "t", "h", "-", "a", "u", "t", "h", "o",
                  "r", "i", "z", "a", "t", "i", "o", "n", "-", "s", "e", "r",
                  "v", "e", "r">>],
      [methods |-> {"POST"}, endpoint |-> "register_client",
       path |-> <<"/", "r", "e", "g", "i", "s", "t", "e", "r">>],
      [methods |-> {"GET"}, endpoint |-> "authorize",
       path |-> <<"/", "a", "u", "t", "h", "o", "r", "i", "z", "e">>],
      [methods |-> {"POST"}, endpoint |-> "token",
       path |-> <<"/", "t", "o", "k", "e", "n">>],
      [methods |-> {"GET", "POST"}, endpoint |-> "mcp_endpoint",
       path |-> <<"/", "m", "c", "p">>],
      [methods |-> {"GET"}, endpoint |-> "root",
       path |-> <<"/">>] }

\* Lines 48-53 naming the authorization server with a trailing "/".
ProtectedResourceMetadata_TrailingSlash(base_url) ==
    [resource |-> base_url \o S_mcp,
     authorization_servers |-> <<base_url \o <<"/">>>>,
     scopes_supported |-> <<"read", "write">>,
     bearer_methods_supported |-> <<"header">>]

\* Lines 48-53: the protected-resource document.
ProtectedResourceMetadata(base_url) ==
    [resource |-> base_url \o S_mcp,
     authorization_servers |-> <<base_url>>,
     scopes_supported |-> <<"read", "write">>,
     bearer_methods_supported |-> <<"header">>]

\* Lines 59-68 with the endpoints of a server that mounts them under
\* "/oauth".
AuthorizationServerMetadata_OtherLayout(base_url) ==
    [issuer |-> base_url,
     authorization_endpoint |->
        base_url \o <<"/", "o", "a", "u", "t", "h">> \o S_authorize,
     token_endpoint |->
        base_url \o <<"/", "o", "a", "u", "t", "h">> \o S_token,
     registration_endpoint |->
        base_url \o <<"/", "o", "a", "u", "t", "h">> \o S_register,
     response_types_supported |-> <<"code">>,
     code_challenge_methods_supported |-> <<"S256">>,
     grant_types_supported |-> <<"authorization_code", "refresh_token">>,
     token_endpoint_auth_methods_supported |->
        <<"none", "client_secret_post">>]

\* Lines 59-68: the authorization-server document.
AuthorizationServerMetadata(base_url) ==
    [issuer |-> base_url,
     authorization_endpoint |-> base_url \o S_authorize,
     token_endpoint |-> base_url \o S_token,
     registration_endpoint |-> base_url \o S_register,
     response_types_supported |-> <<"code">>,
     code_challenge_methods_supported |-> <<"S256">>,
     grant_types_supported |-> <<"authorization_code", "refresh_token">>,
     token_endpoint_auth_methods_supported |->
        <<"none", "client_secret_post">>]

\* Lines 45-53
protected_resource_metadata ==
    /\ last' = [op |-> "protected_resource_metadata", pre |-> Stores,
                resp |-> [status |-> 200,
                          body |-> ProtectedResourceMetadata(BASE_URL)]]
    /\ UNCHANGED <<evalServers, PORT, BASE_URL, registered_clients, issued_tokens,
                   inflight, minted, redeemed, contested, presented,
                   registrations>>

\* Lines 56-68
authorization_server_metadata ==
    /\ last' = [op |-> "authorization_server_metadata", pre |-> Stores,
                resp |-> [status |-> 200,
                          body |-> AuthorizationServerMetadata(BASE_URL)]]
    /\ UNCHANGED <<evalServers, PORT, BASE_URL, registered_clients, issued_tokens,
                   inflight, minted, redeemed, contested, presented,
                   registrations>>

\* Lines 198-209: the server info.
RootInfo(base_url) ==
    [name |-> "Runlayer OAuth Mock Server",
     description |->
        "Mock server for testing issue #271 - RFC 8707 resource parameter",
     base_url |-> base_url,
     endpoints |->
        [protected_resource_metadata |->
            <<"/", ".", "w", "e", "l", "l", "-", "k", "n", "o", "w", "n", "/",
              "o", "a", "u", "t", "h", "-", "p", "r", "o", "t", "e", "c", "t",
              "e", "d", "-", "r", "e", "s", "o", "u", "r", "c", "e">>,
         authorization_server_metadata |->
            <<"/", ".", "w", "e", "l", "l", "-", "k", "n", "o", "w", "n", "/",
              "o", "a", "u", "t", "h", "-", "a", "u", "t", "h", "o", "r", "i",
              "z", "a", "t", "i", "o", "n", "-", "s", "e", "r", "v", "e",
              "r">>,
         register |-> <<"/", "r", "e", "g", "i", "s", "t", "e", "r">>,
         authorize |-> <<"/", "a", "u", "t", "h", "o", "r", "i", "z", "e">>,
         token |-> <<"/", "t", "o", "k", "e", "n">>,
         mcp |-> <<"/", "m", "c", "p">>]]

\* Lines 195-210
root ==
    /\ last' = [op |-> "root", pre |-> Stores,
                resp |-> [status |-> 200, body |-> RootInfo(BASE_URL)]]
    /\ UNCHANGED <<evalServers, PORT, BASE_URL, registered_clients, issued_tokens,
                   inflight, minted, redeemed, contested, presented,
                   registrations>>

---------------------------------------------------------------------------
\* The server handling one request after the other, each handler from the
\* request to its response.

Next ==
    \/ \E query \in AuthorizeQueries : authorize(query)
    \/ \E form \in TokenForms : token(form)
    \/ \E body \in RegisterBodies : register_client(body)
    \/ \E method \in McpMethods, headers \in McpHeaders :
          mcp_endpoint(method, headers)

Spec == Init /\ [][Next]_vars

---------------------------------------------------------------------------
\* The server with /token handlers suspended at their await while other
\* requests are handled: every order in which the event loop can resume
\* them.

\* the forms of the concurrent redemptions: a code /authorize mints, or none
RedeemForms ==
    { [grant_type |-> S_authorization_code, code |-> c] : c \in AuthCodes }
    \cup { [grant_type |-> S_refresh_token] }

ConcNext ==
    \/ authorize(ValidQuery)
    \/ \E form \in RedeemForms : token_suspend(form)
    \/ \E r \in BagToSet(inflight) : token_resume(r)

ConcSpec == Init /\ [][ConcNext]_vars

---------------------------------------------------------------------------
\* The server as a client that discovers it sees it: the discovery
\* documents and /mcp, between registrations, authorizations and
\* redemptions.

\* the Authorization values of the discovering client: none, a token
\* /token never issues, and the tokens /token can issue
DiscoveryHeaders ==
    {EmptyDict, [Authorization |-> S_BearerPrefix \o <<"x">>]}
    \cup { [Authorization |-> S_BearerPrefix \o S_mock_access_token \o h] :
              h \in TokenHexOutcomes }

MetaNext ==
    \/ protected_resource_metadata
    \/ authorization_server_metadata
    \/ root
    \/ \E method \in McpMethods, headers \in DiscoveryHeaders :
          mcp_endpoint(method, headers)
    \/ \E body \in RegisterBodies : register_client(body)
    \/ authorize(ValidQuery)
    \/ \E form \in RedeemForms : token(form)

MetaSpec == Init /\ [][MetaNext]_vars

---------------------------------------------------------------------------
\* The server with several clients registering, between authorizations,
\* redemptions and /mcp requests.

RegNext ==
    \/ \E body \in RegisterBodies : register_client_among(body, ClientIdPool)
    \/ authorize(ValidQuery)
    \/ \E form \in RedeemForms : token(form)
    \/ \E method \in McpMethods, headers \in DiscoveryHeaders :
          mcp_endpoint(method, headers)

RegSpec == Init /\ [][RegNext]_vars

---------------------------------------------------------------------------
\* The server with clients that authorize and redeem with values that
\* match nothing: registered or not, with or without PKCE.

\* the queries: of a client that never registered, of the registered client
\* with its registered redirect URI and with another, and with a PKCE
\* challenge
CrossQueries ==
    {ValidQuery, PkceQuery}
    \cup { [ValidQuery EXCEPT !.client_id = id] : id \in ClientIds }
    \cup { [ValidQuery EXCEPT !.client_id = id,
                              !.redirect_uri = <<"z", "z">>] :
              id \in ClientIds }

\* the /token forms: the code alone, the code with the values of
\* ValidQuery, and the code with values no request to /authorize gave
CrossForms ==
    { [grant_type |-> S_authorization_code, code |-> c] : c \in AuthCodes }
    \cup { [grant_type |-> S_authorization_code, code |-> c,
            client_id |-> ValidQuery.client_id,
            redirect_uri |-> ValidQuery.redirect_uri,
            resource |-> ValidQuery.resource] : c \in AuthCodes }
    \cup { [grant_type |-> S_authorization_code, code |-> c,
            client_id |-> <<"q">>, redirect_uri |-> <<"y">>,
            resource |-> <<"o">>, code_verifier |-> <<"w">>] :
              c \in AuthCodes }

CrossNext ==
    \/ \E body \in RegisterBodies : register_client(body)
    \/ \E query \in CrossQueries : authorize(query)
    \/ \E form \in CrossForms : token(form)

CrossSpec == Init /\ [][CrossNext]_vars

---------------------------------------------------------------------------
\* The server with /register and /authorize requests in flight together:
\* every order in which the event loop can run their handlers, with
\* redemptions in between.

\* the body every client of this specification registers with
InsertBodies ==
    { [kind |-> "object",
       value |-> [client_name |-> <<"n">>,
                  redirect_uris |-> << <<"c", "b">> >>]] }

\* the forms of the redemptions: a code /authorize mints
InsertForms ==
    { [grant_type |-> S_authorization_code, code |-> c] : c \in AuthCodes }

InsertNext ==
    \/ \E body \in InsertBodies : register_suspend(body)
    \/ \E r \in BagToSet(inflight) : register_resume(r, ClientIdPool)
    \/ authorize_suspend(ValidQuery)
    \/ \E r \in BagToSet(inflight) : authorize_resume(r)
    \/ \E form \in InsertForms : token(form)

InsertSpec == Init /\ [][InsertNext]_vars

---------------------------------------------------------------------------
\* The server from the arrival of each request to its response: requests of
\* every endpoint in flight together, and the event loop running a handler
\* that can run until it has answered.

\* the request bodies sent to /register: a JSON object, and a text that is
\* no JSON
RawBodies ==
    { [kind |-> "object", value |-> [client_name |-> <<"n">>]],
      [kind |-> "text", value |-> <<"{">>] }

\* the requests that arrive
Requests ==
    { [kind |-> "register", body |-> raw] : raw \in RawBodies }
    \cup { [kind |-> "authorize", query |-> q] : q \in {ValidQuery, EmptyDict} }
    \cup { [kind |-> "token", form |-> f] :
              f \in {EmptyDict}
                    \cup { [grant_type |-> S_authorization_code, code |-> c] :
                              c \in AuthCodes } }
    \cup { [kind |-> "mcp", method |-> "GET", headers |-> h] :
              h \in {EmptyDict, [Authorization |-> S_BearerPrefix \o <<"x">>]} }

\* the requests in flight that will draw an identifier of this kind
Drawing(kind) ==
    { r \in BagToSet(inflight) :
        /\ r.kind = kind
        /\ kind = "register" => r.body.kind = "object"
        /\ kind = "authorize" => MissingParams(r.query) = {} }

\* The model has finitely many identifiers to draw from: a request that
\* will draw one arrives only while one is left for it.
HasRoom(r) ==
    /\ (r.kind = "register" /\ r.body.kind = "object")
          => /\ Drawing("register") = {}
             /\ NewClientIds(ClientIds, r.body.value) # {}
    /\ (r.kind = "authorize" /\ MissingParams(r.query) = {})
          => /\ Drawing("authorize") = {}
             /\ FreshCodes(minted) # {}

\* A request arrives and waits for the event loop; at most MaxConcurrent
\* wait at once.
arrive(r) ==
    /\ BagCardinality(inflight) < MaxConcurrent
    /\ HasRoom(r)
    /\ inflight' = inflight (+) SetToBag({r})
    /\ contested' = contested \cup NowContested(issued_tokens, inflight')
    /\ UNCHANGED <<evalServers, PORT, BASE_URL, registered_clients, issued_tokens, last,
                   minted, redeemed, presented, registrations>>

\* The event loop runs the handler of a waiting request to its response.
respond(r) ==
    \/ register_resume(r, ClientIds)
    \/ authorize_resume(r)
    \/ token_resume(r)
    \/ mcp_resume(r)

TermNext ==
    \/ \E r \in Requests : arrive(r)
    \/ \E r \in Requests : respond(r)

\* asyncio runs every handler that is ready: none waits for ever.
TermSpec ==
    /\ Init
    /\ [][TermNext]_vars
    /\ \A r \in Requests : WF_vars(respond(r))

---------------------------------------------------------------------------
\* What a client reads from a response.

\* the first position of character ch in s, or 0
IndexOf(s, ch) ==
    IF \E i \in 1..Len(s) : s[i] = ch
    THEN CHOOSE i \in 1..Len(s) : s[i] = ch /\ \A j \in 1..(i - 1) : s[j] # ch
    ELSE 0

\* s cut at every ch
RECURSIVE SplitOn(_, _)
SplitOn(s, ch) ==
    IF IndexOf(s, ch) = 0 THEN <<s>>
    ELSE <<SubSeq(s, 1, IndexOf(s, ch) - 1)>>
         \o SplitOn(SubSeq(s, IndexOf(s, ch) + 1, Len(s)), ch)

\* the character a "%XX" escape stands for
Unescape(hex) ==
    CASE hex = <<"2", "6">> -> "&"
      [] hex = <<"3", "D">> -> "="
      [] hex = <<"3", "F">> -> "?"
      [] hex = <<"2", "F">> -> "/"
      [] hex = <<"3", "A">> -> ":"
      [] hex = <<"2", "5">> -> "%"
      [] hex = <<"2", "B">> -> "+"
      [] hex = <<"2", "3">> -> "#"
      [] OTHER -> "?"

\* a query-string name or value decoded: "+" is a space, "%XX" a character
RECURSIVE UnquotePlus(_)
UnquotePlus(s) ==
    IF s = <<>> THEN <<>>
    ELSE IF Head(s) = "%" /\ Len(s) >= 3
    THEN <<Unescape(SubSeq(s, 2, 3))>> \o UnquotePlus(SubSeq(s, 4, Len(s)))
    ELSE IF Head(s) = "+" THEN <<" ">> \o UnquotePlus(Tail(s))
    ELSE <<Head(s)>> \o UnquotePlus(Tail(s))

\* the <<name, value>> pairs of a query string, blank values kept
QueryPairs(qs) ==
    LET fields == SplitOn(qs, "&")
    IN  [i \in 1..Len(fields) |->
            LET f == fields[i]
                eq == IndexOf(f, "=")
            IN  IF eq = 0 THEN <<UnquotePlus(f), <<>>>>
                ELSE <<UnquotePlus(SubSeq(f, 1, eq - 1)),
                       UnquotePlus(SubSeq(f, eq + 1, Len(f)))>>]

\* sub occurs in s
Contains(s, sub) ==
    \E i \in 1..(Len(s) - Len(sub) + 1) : SubSeq(s, i, i + Len(sub) - 1) = sub

\* the latest request was a /token request with this grant_type
LastTokenRequest(grant_type) ==
    /\ last.op = "token"
    /\ Get(last.req, "grant_type") = grant_type

\* the latest request changed neither store
StoresUntouched ==
    /\ issued_tokens = last.pre.tokens
    /\ registered_clients = last.pre.clients

\* the latest response is the 400 of a refused code, with no token set
InvalidCodeResponse ==
    /\ last.resp.status = 400
    /\ DOMAIN last.resp = {"status", "detail"}
    /\ last.resp.detail = <<"I", "n", "v", "a", "l", "i", "d", " ", "a", "u",
           "t", "h", "o", "r", "i", "z", "a", "t", "i", "o", "n", " ", "c",
           "o", "d", "e">>

---------------------------------------------------------------------------
\* Authorization codes are single-use.

\* C1: each code /authorize minted yields at most one 200 from /token, and a
\* /token authorization_code request for a code redeemed before it gets the
\* 400 "Invalid authorization code", no token set, and changes no store.
C1_SingleUse ==
    \A c \in AuthCodes :
       /\ redeemed[c] <= 1
       /\ ( /\ LastTokenRequest(S_authorization_code)
            /\ Get(last.req, "code") = c
            /\ redeemed[c] >= 1
            /\ c \notin DOMAIN last.pre.tokens )
          => (InvalidCodeResponse /\ StoresUntouched)

\* a second redemption of a redeemed code has just been refused
C1_Witness ==
    \E c \in AuthCodes :
       /\ LastTokenRequest(S_authorization_code)
       /\ Get(last.req, "code") = c
       /\ redeemed[c] = 1
       /\ c \notin DOMAIN last.pre.tokens
       /\ last.resp.status = 400

\* C2: of the /token authorization_code requests suspended at once for the
\* same stored code, whatever the order in which they resume, exactly one
\* gets 200 and every other one the 400 "Invalid authorization code"; none
\* ends in an unhandled error.
C2_ConcurrentRedemption ==
    /\ \A c \in AuthCodes : redeemed[c] <= 1
    /\ \A c \in contested : NumRedeeming(inflight, c) = 0 => redeemed[c] = 1
    /\ LastTokenRequest(S_authorization_code)
       => \/ /\ last.resp.status = 200
             /\ DOMAIN last.resp = {"status", "body"}
             /\ Get(last.req, "code") \in DOMAIN last.pre.tokens
             /\ issued_tokens = Without(last.pre.tokens, last.req.code)
          \/ /\ InvalidCodeResponse
             /\ StoresUntouched

\* two redemptions of one stored code were suspended together, both have
\* resumed, and the second to resume has just been refused
C2_Witness ==
    \E c \in contested :
       /\ NumRedeeming(inflight, c) = 0
       /\ redeemed[c] = 1
       /\ LastTokenRequest(S_authorization_code)
       /\ last.req.code = c
       /\ last.resp.status = 400

---------------------------------------------------------------------------
\* GET /authorize.

\* the latest request was a GET /authorize
LastAuthorize == last.op = "authorize"

\* its query string has the four required parameters
LastQueryComplete ==
    /\ "client_id" \in DOMAIN last.req
    /\ "redirect_uri" \in DOMAIN last.req
    /\ "state" \in DOMAIN last.req
    /\ "resource" \in DOMAIN last.req

\* the codes the latest request added to the Grant Store
NewCodes == DOMAIN issued_tokens \ DOMAIN last.pre.tokens

\* C3: a /authorize request lacking client_id, redirect_uri, state or
\* resource gets the 422 validation failure, not a 302, and leaves the Grant
\* Store and the Client Registry as they were.
C3_MissingParameter ==
    (LastAuthorize /\ ~LastQueryComplete)
       => /\ last.resp.status = 422
          /\ "location" \notin DOMAIN last.resp
          /\ StoresUntouched

\* a request with everything but resource has just been refused, with
\* grants in the store
C3_Witness ==
    /\ LastAuthorize
    /\ DOMAIN last.req \cap {"client_id", "redirect_uri", "state", "resource"}
          = {"client_id", "redirect_uri", "state"}
    /\ last.resp.status = 422
    /\ issued_tokens # EmptyDict

\* C4: every grant in the Grant Store has a non-empty resource.
C4_GrantsHaveResource ==
    \A c \in DOMAIN issued_tokens :
       /\ issued_tokens[c].resource # None
       /\ issued_tokens[c].resource # <<>>

\* C5: a /authorize request with client_id, redirect_uri, state and resource
\* adds exactly one grant, under a code that was no key of the store, with
\* the request's client_id, redirect_uri, resource and code_challenge, and
\* changes no grant that was in the store.
C5_OneNewGrant ==
    (LastAuthorize /\ LastQueryComplete)
       => /\ Cardinality(DOMAIN issued_tokens)
                = Cardinality(DOMAIN last.pre.tokens) + 1
          /\ \E c \in NewCodes :
                /\ DOMAIN issued_tokens = DOMAIN last.pre.tokens \cup {c}
                /\ issued_tokens[c].client_id = last.req.client_id
                /\ issued_tokens[c].redirect_uri = last.req.redirect_uri
                /\ issued_tokens[c].resource = last.req.resource
                /\ issued_tokens[c].code_challenge =
                      IF "code_challenge" \in DOMAIN last.req
                      THEN last.req.code_challenge ELSE None
          /\ \A d \in DOMAIN last.pre.tokens :
                issued_tokens[d] = last.pre.tokens[d]

\* a request with a code_challenge has just added a grant to a store that
\* held one
C5_Witness ==
    /\ LastAuthorize
    /\ LastQueryComplete
    /\ "code_challenge" \in DOMAIN last.req
    /\ last.pre.tokens # EmptyDict
    /\ NewCodes # {}

---------------------------------------------------------------------------
\* POST /token.

\* the latest response is a 200 carrying a token set
TokenSetResponse ==
    /\ last.resp.status = 200
    /\ DOMAIN last.resp = {"status", "body"}
    /\ DOMAIN last.resp.body
          = {"access_token", "token_type", "expires_in", "refresh_token"}
    /\ last.resp.body.token_type = <<"B", "e", "a", "r", "e", "r">>
    /\ last.resp.body.expires_in = 3600
    /\ last.resp.body.access_token # <<>>
    /\ last.resp.body.refresh_token # <<>>

\* C7: a /token authorization_code request whose code is missing, empty,
\* never issued or already redeemed gets the 400 "Invalid authorization
\* code", no token set, and changes neither store.
C7_InvalidCode ==
    ( /\ LastTokenRequest(S_authorization_code)
      /\ \/ "code" \notin DOMAIN last.req
         \/ last.req.code = <<>>
         \/ last.req.code \notin DOMAIN last.pre.tokens )
       => (InvalidCodeResponse /\ StoresUntouched)

\* a request with a code nobody minted has just been refused, with grants
\* in the store
C7_Witness ==
    /\ LastTokenRequest(S_authorization_code)
    /\ "code" \in DOMAIN last.req
    /\ last.req.code = <<"z">>
    /\ last.resp.status = 400
    /\ issued_tokens # EmptyDict

\* C8: a /token refresh_token request gets 200 with a token set (token_type
\* "Bearer", expires_in 3600) with or without a refresh_token value, and
\* changes neither store: it consumes no authorization code.
C8_RefreshAlwaysSucceeds ==
    LastTokenRequest(S_refresh_token)
       => (TokenSetResponse /\ StoresUntouched)

\* a refresh request carrying a stored code has just been answered, and
\* the code is still stored
C8_Witness ==
    /\ LastTokenRequest(S_refresh_token)
    /\ "code" \in DOMAIN last.req
    /\ last.req.code \in DOMAIN last.pre.tokens
    /\ last.req.code \in DOMAIN issued_tokens
    /\ last.resp.status = 200

\* C9: a /token request whose grant_type is neither "authorization_code"
\* nor "refresh_token", or is absent, gets a 400 whose detail is
\* "Unsupported grant_type: " followed by the received value (None when
\* absent), no token set, and changes neither store, even when it carries a
\* stored code.
C9_UnsupportedGrantType ==
    ( /\ last.op = "token"
      /\ \/ "grant_type" \notin DOMAIN last.req
         \/ /\ last.req.grant_type # S_authorization_code
            /\ last.req.grant_type # S_refresh_token )
       => /\ last.resp.status = 400
          /\ DOMAIN last.resp = {"status", "detail"}
          /\ last.resp.detail
                = <<"U", "n", "s", "u", "p", "p", "o", "r", "t", "e", "d", " ",
                    "g", "r", "a", "n", "t", "_", "t", "y", "p", "e", ":", " ">>
                  \o (IF "grant_type" \in DOMAIN last.req
                      THEN last.req.grant_type
                      ELSE <<"N", "o", "n", "e">>)
          /\ StoresUntouched

\* a request with an unknown grant_type and a stored code has just been
\* refused, and the code is still stored
C9_Witness ==
    /\ last.op = "token"
    /\ "grant_type" \in DOMAIN last.req
    /\ last.req.grant_type = <<"p", "w">>
    /\ last.req.code \in DOMAIN last.pre.tokens
    /\ last.req.code \in DOMAIN issued_tokens
    /\ last.resp.status = 400

---------------------------------------------------------------------------
\* GET or POST /mcp.

\* the latest request carries an Authorization header starting "Bearer "
LastBearerShaped ==
    /\ "Authorization" \in DOMAIN last.req
    /\ Len(last.req.Authorization) >= 7
    /\ SubSeq(last.req.Authorization, 1, 7)
          = <<"B", "e", "a", "r", "e", "r", " ">>

\* the latest response is the 401 challenge: error "unauthorized", the
\* Bearer scheme, and resource_metadata naming the protected-resource
\* document under the base URL
ChallengeResponse ==
    /\ last.resp.status = 401
    /\ last.resp.content.error = S_unauthorized
    /\ StartsWith(last.resp.headers.WWW_Authenticate, S_BearerPrefix)
    /\ Contains(last.resp.headers.WWW_Authenticate,
                <<"r", "e", "s", "o", "u", "r", "c", "e", "_", "m", "e", "t",
                  "a", "d", "a", "t", "a", "=", "\"">>
                \o BASE_URL \o S_prm \o <<"\"">>)

\* C10: /mcp, by GET or POST, answers the 401 challenge exactly when the
\* Authorization header is absent or does not start with "Bearer ", and 200
\* otherwise.
C10_McpChallenge ==
    last.op = "mcp"
       => /\ last.method \in {"GET", "POST"}
          /\ ChallengeResponse <=> ~LastBearerShaped
          /\ LastBearerShaped => last.resp.status = 200

\* a POST with a lower-case "bearer x" header has just been challenged
C10_Witness ==
    /\ last.op = "mcp"
    /\ last.method = "POST"
    /\ "Authorization" \in DOMAIN last.req
    /\ last.req.Authorization = <<"b", "e", "a", "r", "e", "r", " ", "x">>
    /\ last.resp.status = 401

\* the fixed capability payload
CapabilityPayload ==
    [jsonrpc |-> "2.0", id |-> 1,
     result |-> [protocolVersion |-> "2024-11-05",
                 capabilities |-> [tools |-> [x \in {} |-> x]],
                 serverInfo |-> [name |-> "runlayer-mock",
                                 version |-> "1.0.0"]]]

\* C11: the 200 response of /mcp is one fixed capability payload, whatever
\* bearer-shaped Authorization header it answers (a token /token issued or
\* any other) and whatever the Grant Store and the Client Registry hold.
C11_FixedPayload ==
    (last.op = "mcp" /\ LastBearerShaped)
       => /\ last.resp.status = 200
          /\ DOMAIN last.resp = {"status", "body"}
          /\ last.resp.body = CapabilityPayload

\* a token of the shape /token issues has just been answered with grants
\* in the store and a client in the registry
C11_Witness ==
    /\ last.op = "mcp"
    /\ LastBearerShaped
    /\ Len(last.req.Authorization) > 8
    /\ last.resp.status = 200
    /\ issued_tokens # EmptyDict
    /\ registered_clients # EmptyDict

---------------------------------------------------------------------------
\* The discovery documents.

\* the latest response is the protected-resource document
LastProtectedResource == last.op = "protected_resource_metadata"

\* the latest response is the authorization-server document
LastAuthorizationServer == last.op = "authorization_server_metadata"

\* the issuer the authorization-server document gives in this state
Issuer == AuthorizationServerMetadata(BASE_URL).issuer

\* the authorization_servers the protected-resource document gives in this
\* state
AuthorizationServers ==
    ProtectedResourceMetadata(BASE_URL).authorization_servers

\* C12 as stated: the authorization_servers value of the protected-resource
\* document equals the issuer value of the authorization-server document.
C12_SameValue ==
    /\ LastProtectedResource
          => last.resp.body.authorization_servers = Issuer
    /\ LastAuthorizationServer
          => AuthorizationServers = last.resp.body.issuer

\* C12, amended: the authorization_servers value of the protected-resource
\* document is a list of one element, and that element equals the issuer
\* value of the authorization-server document, for every base URL.
C12_IssuerListed ==
    /\ LastProtectedResource
          => /\ Len(last.resp.body.authorization_servers) = 1
             /\ last.resp.body.authorization_servers[1] = Issuer
    /\ LastAuthorizationServer
          => /\ Len(AuthorizationServers) = 1
             /\ AuthorizationServers[1] = last.resp.body.issuer

\* the protected-resource document has just been served by a server whose
\* base URL comes from PORT
C12_Witness ==
    /\ LastProtectedResource
    /\ last.resp.status = 200
    /\ BASE_URL = <<"h", "t", "t", "p", ":", "/", "/", "l", "o", "c", "a", "l",
                    "h", "o", "s", "t", ":", "9", "0", "0", "0">>

\* the first position at which sub occurs in s, or 0
FindSub(s, sub) ==
    IF Contains(s, sub)
    THEN CHOOSE i \in 1..(Len(s) - Len(sub) + 1) :
            /\ SubSeq(s, i, i + Len(sub) - 1) = sub
            /\ \A j \in 1..(i - 1) : SubSeq(s, j, j + Len(sub) - 1) # sub
    ELSE 0

\* the value of the quoted parameter `name` of a WWW-Authenticate header
ChallengeParam(header, name) ==
    LET marker == name \o <<"=", "\"">>
        rest == SubSeq(header, FindSub(header, marker) + Len(marker),
                       Len(header))
    IN  SubSeq(rest, 1, IndexOf(rest, "\"") - 1)

\* url is the base URL followed by the path of the route of this handler
Served(endpoint, url) ==
    \E r \in Routes : r.endpoint = endpoint /\ url = BASE_URL \o r.path

\* C13: the authorization_endpoint, token_endpoint and registration_endpoint
\* of the authorization-server document, the resource of the
\* protected-resource document and the resource_metadata URL of the /mcp
\* challenge are each the base URL followed by the path of the route that
\* serves that purpose: /authorize, /token, /register, /mcp and
\* /.well-known/oauth-protected-resource.
C13_NoDrift ==
    /\ LastAuthorizationServer
          => /\ Served("authorize", last.resp.body.authorization_endpoint)
             /\ Served("token", last.resp.body.token_endpoint)
             /\ Served("register_client",
                       last.resp.body.registration_endpoint)
    /\ LastProtectedResource
          => Served("mcp_endpoint", last.resp.body.resource)
    /\ (last.op = "mcp" /\ last.resp.status = 401)
          => Served("protected_resource_metadata",
                    ChallengeParam(last.resp.headers.WWW_Authenticate,
                        <<"r", "e", "s", "o", "u", "r", "c", "e", "_", "m",
                          "e", "t", "a", "d", "a", "t", "a">>))

\* the authorization-server document has just been served by a server
\* whose base URL comes from BASE_URL
C13_Witness ==
    /\ LastAuthorizationServer
    /\ last.resp.status = 200
    /\ BASE_URL = <<"h", "t", "t", "p", "s", ":", "/", "/", "m">>
    /\ last.resp.body.token_endpoint
          = <<"h", "t", "t", "p", "s", ":", "/", "/", "m", "/", "t", "o",
              "k", "e", "n">>

---------------------------------------------------------------------------
\* POST /register.

\* the latest request was a POST /register
LastRegister == last.op = "register"

\* C14: after any sequence of /register requests, identical client_name or
\* not, the registry has one entry per registration; each registration
\* returns a client_id that was no key of the registry (so no two
\* registrations return the same) and adds its entry to the entries that
\* were there, which it leaves as they were.
C14_DistinctClientIds ==
    /\ Cardinality(DOMAIN registered_clients) = registrations
    /\ LastRegister
          => /\ last.resp.status = 200
             /\ last.resp.body.client_id \notin DOMAIN last.pre.clients
             /\ DOMAIN registered_clients
                   = DOMAIN last.pre.clients \cup {last.resp.body.client_id}
             /\ Cardinality(DOMAIN registered_clients)
                   = Cardinality(DOMAIN last.pre.clients) + 1
             /\ \A id \in DOMAIN last.pre.clients :
                   registered_clients[id] = last.pre.clients[id]

\* a second client has just registered under the client_name of the first
C14_Witness ==
    /\ LastRegister
    /\ registrations = 2
    /\ "client_name" \in DOMAIN last.req
    /\ \E id \in DOMAIN last.pre.clients :
          /\ id # last.resp.body.client_id
          /\ last.pre.clients[id].client_name = last.req.client_name

\* C15: every step keeps each record of the Client Registry under its key
\* with the same client_id, client_secret, client_name and redirect_uris,
\* whichever of /register, /authorize, /token and /mcp it is; and a step
\* that changes the registry is a /register request.
C15_RegistryAppendOnly ==
    [][ /\ \A id \in DOMAIN registered_clients :
              /\ id \in DOMAIN registered_clients'
              /\ registered_clients'[id] = registered_clients[id]
              /\ registered_clients'[id].client_id = id
        /\ registered_clients' # registered_clients
              => /\ last'.op = "register"
                 /\ registrations' = registrations + 1 ]_vars

\* two clients registered, then a code was issued and redeemed and /mcp
\* was called: both records are there
C15_Witness ==
    /\ registrations = 2
    /\ Cardinality(DOMAIN registered_clients) = 2
    /\ \A id \in DOMAIN registered_clients :
          registered_clients[id].client_id = id
    /\ \E c \in AuthCodes : redeemed[c] = 1
    /\ last.op = "mcp"

---------------------------------------------------------------------------
\* The life of a grant.

\* the step answers a /token authorization_code request presenting code c
RedemptionOf(c) ==
    /\ last'.op = "token"
    /\ Get(last'.req, "grant_type") = S_authorization_code
    /\ Get(last'.req, "code") = c

\* C16: a code that was issued and not redeemed is in the Grant Store; every
\* step that is not a /token authorization_code request presenting it (an
\* authorization, the redemption of another code, a refused redemption, a
\* refresh_token call, a registration, a /mcp request) leaves it there with
\* the same record; and the request that presents it gets 200 and a token
\* set.
C16_GrantPersists ==
    [][ /\ \A c \in minted : redeemed[c] = 0 => c \in DOMAIN issued_tokens
        /\ \A c \in DOMAIN issued_tokens :
              IF RedemptionOf(c)
              THEN /\ last'.resp.status = 200
                   /\ DOMAIN last'.resp.body
                         = {"access_token", "token_type", "expires_in",
                            "refresh_token"}
                   /\ redeemed'[c] = redeemed[c] + 1
              ELSE /\ c \in DOMAIN issued_tokens'
                   /\ issued_tokens'[c] = issued_tokens[c] ]_vars

\* a code has just been redeemed after another code was issued and
\* redeemed, a client registered, and a grant is still stored
C16_Witness ==
    /\ LastTokenRequest(S_authorization_code)
    /\ last.resp.status = 200
    /\ \E d \in AuthCodes : d # last.req.code /\ redeemed[d] = 1
    /\ registrations = 1

---------------------------------------------------------------------------
\* The happy path.

\* C17: the /authorize request that stores a code c answers 302 with c in
\* its Location; and the first /token authorization_code request that
\* presents c after that gets 200 with an access_token, a refresh_token,
\* token_type "Bearer" and expires_in 3600, whatever requests that do not
\* present c were handled in between.
C17_HappyPath ==
    [][ \A c \in AuthCodes :
           /\ (c \notin minted /\ c \in minted')
                 => /\ last'.op = "authorize"
                    /\ last'.resp.status = 302
                    /\ Contains(last'.resp.location, S_code \o <<"=">> \o c)
           /\ (c \in minted /\ c \notin presented /\ RedemptionOf(c))
                 => /\ last'.resp.status = 200
                    /\ DOMAIN last'.resp.body
                          = {"access_token", "token_type", "expires_in",
                             "refresh_token"}
                    /\ last'.resp.body.token_type
                          = <<"B", "e", "a", "r", "e", "r">>
                    /\ last'.resp.body.expires_in = 3600
                    /\ StartsWith(last'.resp.body.access_token,
                                  <<"m", "o", "c", "k", "-">>)
                    /\ StartsWith(last'.resp.body.refresh_token,
                                  <<"m", "o", "c", "k", "-">>) ]_vars

\* a client registered, two codes were issued, the other one was redeemed,
\* and the first request to present this one has just got its token set
C17_Witness ==
    /\ registrations = 1
    /\ LastTokenRequest(S_authorization_code)
    /\ last.resp.status = 200
    /\ last.req.code \in presented
    /\ \E d \in presented : d # last.req.code /\ d \notin DOMAIN last.pre.tokens
    /\ DOMAIN last.req = {"grant_type", "code"}

---------------------------------------------------------------------------
\* What /register returns.

\* C18: the response of a /register request is the record the registry
\* holds under the returned client_id, of client_id, client_secret,
\* client_name and redirect_uris; its client_name and redirect_uris are the
\* request body's, and its redirect_uris is the empty sequence when the body
\* has none.
C18_RegisterResponse ==
    LastRegister
       => /\ last.resp.status = 200
          /\ DOMAIN last.resp.body
                = {"client_id", "client_secret", "client_name",
                   "redirect_uris"}
          /\ last.resp.body.client_id \in DOMAIN registered_clients
          /\ registered_clients[last.resp.body.client_id] = last.resp.body
          /\ "client_name" \in DOMAIN last.req
                => last.resp.body.client_name = last.req.client_name
          /\ IF "redirect_uris" \in DOMAIN last.req
             THEN last.resp.body.redirect_uris = last.req.redirect_uris
             ELSE last.resp.body.redirect_uris = <<>>

\* a body without redirect_uris has just been registered, after a body
\* with one redirect URI
C18_Witness ==
    /\ LastRegister
    /\ "redirect_uris" \notin DOMAIN last.req
    /\ Len(last.resp.body.redirect_uris) = 0
    /\ \E id \in DOMAIN last.pre.clients :
          Len(last.pre.clients[id].redirect_uris) = 1

---------------------------------------------------------------------------
\* No cross-validation.

\* C19: a /authorize request with the four required parameters gets 302 and
\* stores a grant of its client_id and redirect_uri, whether or not the
\* client_id is a key of the Client Registry or the redirect_uri one of its
\* redirect_uris; and a /token authorization_code request presenting a
\* stored code gets 200 and a token set whatever client_id, redirect_uri,
\* resource and code_verifier it carries or omits.
C19_NoCrossValidation ==
    /\ (LastAuthorize /\ LastQueryComplete)
          => /\ last.resp.status = 302
             /\ \E c \in NewCodes :
                   /\ issued_tokens[c].client_id = last.req.client_id
                   /\ issued_tokens[c].redirect_uri = last.req.redirect_uri
    /\ ( /\ LastTokenRequest(S_authorization_code)
         /\ Get(last.req, "code") \in DOMAIN last.pre.tokens )
          => /\ TokenSetResponse
             /\ last.req.code \notin DOMAIN issued_tokens

\* a request carrying a client_id, redirect_uri and resource that are not
\* the grant's, and a code_verifier, has just redeemed the PKCE grant of a
\* client that never registered, with another client in the registry
C19_Witness ==
    /\ LastTokenRequest(S_authorization_code)
    /\ last.resp.status = 200
    /\ "code_verifier" \in DOMAIN last.req
    /\ LET grant == last.pre.tokens[last.req.code]
       IN  /\ grant.client_id # last.req.client_id
           /\ grant.redirect_uri # last.req.redirect_uri
           /\ grant.resource # last.req.resource
           /\ grant.code_challenge # None
           /\ grant.client_id \notin DOMAIN registered_clients
    /\ registered_clients # EmptyDict

---------------------------------------------------------------------------
\* What a redemption changes.

\* token t is no key of the dict d and no value of a record of d
NotRecorded(t, d) ==
    /\ t \notin DOMAIN d
    /\ \A k \in DOMAIN d : \A f \in DOMAIN d[k] : d[k][f] # t

\* C20: an authorization_code redemption answered 200 leaves the Grant
\* Store as it was but for the redeemed code, every other grant with its
\* record, and the Client Registry as it was; the access and refresh tokens
\* it returns are in neither store.
C20_RedemptionFrame ==
    (LastTokenRequest(S_authorization_code) /\ last.resp.status = 200)
       => /\ last.req.code \in DOMAIN last.pre.tokens
          /\ DOMAIN issued_tokens = DOMAIN last.pre.tokens \ {last.req.code}
          /\ \A d \in DOMAIN issued_tokens :
                issued_tokens[d] = last.pre.tokens[d]
          /\ registered_clients = last.pre.clients
          /\ NotRecorded(last.resp.body.access_token, issued_tokens)
          /\ NotRecorded(last.resp.body.refresh_token, issued_tokens)
          /\ NotRecorded(last.resp.body.access_token, registered_clients)
          /\ NotRecorded(last.resp.body.refresh_token, registered_clients)

\* a code has just been redeemed while another grant of the same client
\* was stored and a client was registered: the other grant is still there
C20_Witness ==
    /\ LastTokenRequest(S_authorization_code)
    /\ last.resp.status = 200
    /\ registered_clients # EmptyDict
    /\ \E d \in DOMAIN issued_tokens :
          issued_tokens[d].client_id
             = last.pre.tokens[last.req.code].client_id

---------------------------------------------------------------------------
\* The read-only endpoints.

\* C21: a step of one of the two metadata endpoints, of /mcp (401 or 200) or
\* of / changes neither the Grant Store nor the Client Registry; no step
\* changes the base URL; and the two metadata documents are, in every
\* state, the documents of the base URL alone.
C21_ReadOnlyEndpoints ==
    [][ /\ BASE_URL' = BASE_URL
        /\ last'.op \in {"protected_resource_metadata",
                         "authorization_server_metadata", "mcp", "root"}
              => /\ issued_tokens' = issued_tokens
                 /\ registered_clients' = registered_clients
                 /\ last'.resp.status \in {200, 401}
        /\ last'.op = "protected_resource_metadata"
              => last'.resp.body
                    = [resource |-> BASE_URL \o <<"/", "m", "c", "p">>,
                       authorization_servers |-> <<BASE_URL>>,
                       scopes_supported |-> <<"read", "write">>,
                       bearer_methods_supported |-> <<"header">>]
        /\ last'.op = "authorization_server_metadata"
              => /\ last'.resp.body.issuer = BASE_URL
                 /\ \A f \in {"authorization_endpoint", "token_endpoint",
                              "registration_endpoint"} :
                       StartsWith(last'.resp.body[f], BASE_URL \o <<"/">>)
                 /\ last'.resp.body.grant_types_supported
                       = <<"authorization_code", "refresh_token">>
                 /\ last'.resp.body.code_challenge_methods_supported
                       = <<"S256">> ]_vars

\* / has just been served with a grant in the store and a client in the
\* registry, and both are as they were
C21_Witness ==
    /\ last.op = "root"
    /\ last.resp.status = 200
    /\ last.resp.body.base_url = BASE_URL
    /\ issued_tokens # EmptyDict
    /\ registered_clients # EmptyDict
    /\ StoresUntouched

---------------------------------------------------------------------------
\* Concurrent inserts.

\* the step completes a request that was in flight, of this handler
Completes(op) ==
    /\ BagCardinality(inflight') = BagCardinality(inflight) - 1
    /\ last'.op = op

\* the codes redeemed so far
RedeemedCodes == { c \in AuthCodes : redeemed[c] >= 1 }

\* C22: with /register and valid /authorize requests in flight together,
\* in whatever order they complete, each completed registration adds one
\* entry to the Client Registry and each completed authorization one grant
\* to the Grant Store, neither touching what was there; so the registry has
\* one entry per completed registration and the store one grant per
\* completed authorization, less the grants redeemed.
C22_ConcurrentInserts ==
    [][ /\ Cardinality(DOMAIN registered_clients) = registrations
        /\ DOMAIN issued_tokens = minted \ RedeemedCodes
        /\ Cardinality(DOMAIN issued_tokens)
              = Cardinality(minted) - Cardinality(RedeemedCodes)
        /\ Completes("register")
              => /\ Cardinality(DOMAIN registered_clients')
                       = Cardinality(DOMAIN registered_clients) + 1
                 /\ \A id \in DOMAIN registered_clients :
                       /\ id \in DOMAIN registered_clients'
                       /\ registered_clients'[id] = registered_clients[id]
                 /\ issued_tokens' = issued_tokens
        /\ Completes("authorize")
              => /\ last'.resp.status = 302
                 /\ Cardinality(DOMAIN issued_tokens')
                       = Cardinality(DOMAIN issued_tokens) + 1
                 /\ \A c \in DOMAIN issued_tokens :
                       /\ c \in DOMAIN issued_tokens'
                       /\ issued_tokens'[c] = issued_tokens[c]
                 /\ registered_clients' = registered_clients ]_vars

\* a /register and a /authorize request are in flight together, after a
\* registration, an authorization and a redemption completed
C22_Witness ==
    /\ \E r1, r2 \in BagToSet(inflight) :
          r1.kind = "register" /\ r2.kind = "authorize"
    /\ registrations = 1
    /\ Cardinality(minted) = 1
    /\ RedeemedCodes # {}

---------------------------------------------------------------------------
\* Every request is answered.

\* C23: every response is a success (200 or 302) or a terminal error (400,
\* 401 or 422); the handler of a request in flight can always run to its
\* response, whatever requests are in flight with it (it waits for none);
\* and a request does not stay in flight for ever unanswered.
C23_EveryRequestAnswered ==
    /\ [](last.op # "start"
            => /\ DOMAIN last.resp \cap {"status"} = {"status"}
               /\ last.resp.status \in {200, 302, 400, 401, 422})
    /\ [](\A r \in Requests : BagIn(r, inflight) => ENABLED respond(r))
    /\ \A r \in Requests :
          \/ []<>(~BagIn(r, inflight))
          \/ []<><<respond(r)>>_vars

---------------------------------------------------------------------------
\* The Grant Store and the history of the codes.

\* the sum of f over the set S
RECURSIVE SumOver(_, _)
SumOver(f, S) ==
    IF S = {} THEN 0
    ELSE LET x == CHOOSE y \in S : TRUE
         IN  f[x] + SumOver(f, S \ {x})

\* C24: in every reachable state the keys of the Grant Store are the codes
\* minted by the /authorize requests answered 302 less the codes redeemed
\* by /token requests answered 200; a redeemed code was minted; and there
\* are no more successful redemptions than successful authorizations.
C24_StoreIsMintedLessRedeemed ==
    /\ DOMAIN issued_tokens = minted \ RedeemedCodes
    /\ RedeemedCodes \subseteq minted
    /\ SumOver(redeemed, AuthCodes) <= Cardinality(minted)
    /\ (LastAuthorize /\ last.resp.status = 302) => NewCodes \subseteq minted
    /\ (LastTokenRequest(S_authorization_code) /\ last.resp.status = 200)
          => last.req.code \in RedeemedCodes

\* two codes were minted, one of them is redeemed and the other stored
C24_Witness ==
    /\ Cardinality(minted) = 2
    /\ Cardinality(RedeemedCodes) = 1
    /\ Cardinality(DOMAIN issued_tokens) = 1
    /\ LastTokenRequest(S_authorization_code)
    /\ last.resp.status = 400

---------------------------------------------------------------------------
\* The fake registry (eval/src/mcpproxy_eval/registry/server.py).

\* Line 236: Query(default=30, ...)
LimitDefault == 30
\* Line 236: Query(..., le=100)
LimitMax == 100

\* how far below minus the length of the list, and how far above its length,
\* the limits of the requests go
LimitSpread == 2
\* calls a client that follows next_cursor makes before it gives up
MaxCalls == 12

\* min() of two integers
Min2(a, b) == IF a <= b THEN a ELSE b

\* A bound of a Python slice over a sequence of n elements: a negative bound
\* counts from the end, and a bound outside the sequence is clamped.
SliceBound(n, i) ==
    IF i < 0 THEN (IF n + i < 0 THEN 0 ELSE n + i) ELSE Min2(i, n)

\* s[a:b] of Python, indices from 0
PySlice(s, a, b) ==
    SubSeq(s, SliceBound(Len(s), a) + 1, SliceBound(Len(s), b))

\* s[i] of Python raises IndexError outside -len(s) .. len(s)-1
PyInRange(s, i) == 0 - Len(s) <= i /\ i < Len(s)

\* s[i] of Python, indices from 0, a negative index counting from the end
PyItem(s, i) == IF i >= 0 THEN s[i + 1] ELSE s[Len(s) + i + 1]

\* the cursor entry itself opens the next page
StartIndex_SameEntry(servers, cursor) ==
    IF cursor = Absent \/ cursor = Present("")
    THEN 0
    ELSE LET hits == {i \in 1..Len(servers) : servers[i].id = cursor[1]}
         IN  IF hits = {} THEN 0
             ELSE (CHOOSE i \in hits : \A j \in hits : i <= j) - 1

\* Lines 240-246: start_idx.  The loop stops at the first entry whose id is
\* the cursor; its index from 0, plus one, is its index from 1.
StartIndex(servers, cursor) ==
    IF cursor = Absent \/ cursor = Present("")
    THEN 0
    ELSE LET hits == {i \in 1..Len(servers) : servers[i].id = cursor[1]}
         IN  IF hits = {} THEN 0
             ELSE CHOOSE i \in hits : \A j \in hits : i <= j

\* Lines 234-261: the response of GET /v0/servers.  A limit above 100 fails
\* the validation of line 236; FAKE_SERVERS[end_idx - 1] of line 253 raises
\* IndexError when end_idx - 1 is below -len(FAKE_SERVERS).
ListServers(servers, limit, cursor) ==
    IF limit > LimitMax
    THEN [status |-> 422]
    ELSE LET start_idx == StartIndex(servers, cursor)
             end_idx == Min2(start_idx + limit, Len(servers))
             page == PySlice(servers, start_idx, end_idx)
         IN  IF end_idx < Len(servers) /\ ~PyInRange(servers, end_idx - 1)
             THEN [status |-> 500]
             ELSE [status |-> 200,
                   servers |-> page,
                   metadata |->
                      [next_cursor |->
                          IF end_idx < Len(servers)
                          THEN Present(PyItem(servers, end_idx - 1).id)
                          ELSE Absent,
                       count |-> Len(page)]]

\* name.split('-')[0]: the name up to its first '-'
RECURSIVE FirstPart(_)
FirstPart(name) ==
    IF name = <<>> \/ Head(name) = "-"
    THEN <<>>
    ELSE <<Head(name)>> \o FirstPart(Tail(name))

\* Lines 270-285: the package list line 270 assigns
PackagesOf(server) ==
    LET command == <<"m", "c", "p", "-">> \o FirstPart(server.name)
    IN  <<[registry_name |-> "uvx",
           name |-> <<"@", "m", "c", "p", "e", "v", "a", "l", "/">>
                        \o server.name,
           version |-> IF server.version_detail # Absent
                       THEN server.version_detail[1].version
                       ELSE "1.0.0",
           package_arguments |->
              <<[description |-> "Server executable command",
                 is_required |-> TRUE,
                 format |-> "string",
                 value |-> command,
                 default |-> command,
                 type |-> "positional",
                 value_hint |-> command]>>]>>

\* Line 270: server.packages = [...], on the entry of FAKE_SERVERS itself
Detailed(server) == [server EXCEPT !.packages = Present(PackagesOf(server))]

\* the cursors of the requests: none, empty, every id of the list, and an
\* id that is not in the list
Cursors ==
    {Absent, Present(""), Present("ffffffff-0000-0000-0000-000000000000")}
        \cup {Present(InitialServers[i].id) : i \in 1..Len(InitialServers)}

\* the limits of the requests
Limits ==
    ((0 - Len(InitialServers) - LimitSpread)
        .. (Len(InitialServers) + LimitSpread))
        \cup {LimitDefault, LimitMax, LimitMax + 1}

\* the ids of the detail requests: the first entry, one in the middle, and
\* an id that is not in the list
DetailIds ==
    {InitialServers[1].id, InitialServers[4].id,
     "ffffffff-0000-0000-0000-000000000000"}

\* Lines 234-261: GET /v0/servers
list_servers(limit, cursor) ==
    /\ reply' = [op |-> "list_servers", limit |-> limit, cursor |-> cursor,
                 resp |-> ListServers(FAKE_SERVERS, limit, cursor)]
    /\ UNCHANGED <<FAKE_SERVERS, args, pages, oauthMock>>

\* Lines 263-290: GET /v0/servers/{server_id}
get_server_details(server_id) ==
    LET hits == {i \in 1..Len(FAKE_SERVERS) : FAKE_SERVERS[i].id = server_id}
    IN  /\ IF hits = {}
           THEN /\ reply' = [op |-> "get_server_details",
                             server_id |-> server_id,
                             resp |-> [status |-> 404,
                                       detail |-> "Server not found"]]
                /\ UNCHANGED FAKE_SERVERS
           ELSE LET i == CHOOSE i \in hits : \A j \in hits : i <= j
                IN  /\ FAKE_SERVERS' =
                          [FAKE_SERVERS EXCEPT ![i] = Detailed(@)]
                    /\ reply' = [op |-> "get_server_details",
                                 server_id |-> server_id,
                                 resp |-> [status |-> 200,
                                           body |-> Detailed(FAKE_SERVERS[i])]]
        /\ UNCHANGED <<args, pages, oauthMock>>

\* The registry under list and detail requests in any order.
RegistryInit ==
    /\ MockInit(EmptyDict)
    /\ EvalInit

RegistryNext ==
    \/ \E limit \in Limits, cursor \in Cursors : list_servers(limit, cursor)
    \/ \E server_id \in DetailIds : get_server_details(server_id)

RegistrySpec == RegistryInit /\ [][RegistryNext]_vars

\* A client that lists the registry page by page: its first request has no
\* cursor, each later one the next_cursor of the page before.
list_next_page ==
    /\ Len(pages) < MaxCalls
    /\ IF reply.op = "start"
       THEN TRUE
       ELSE reply.resp.metadata.next_cursor # Absent
    /\ LET resp == ListServers(FAKE_SERVERS, args.limit, args.cursor)
       IN  /\ reply' = [op |-> "list_servers", limit |-> args.limit,
                        cursor |-> args.cursor, resp |-> resp]
           /\ pages' = Append(pages, resp.servers)
           /\ args' = [args EXCEPT !.cursor = resp.metadata.next_cursor]
    /\ UNCHANGED <<FAKE_SERVERS, oauthMock>>

WalkInit ==
    /\ MockInit(EmptyDict)
    /\ FAKE_SERVERS = InitialServers
    /\ \E limit \in 1..LimitMax : args = [limit |-> limit, cursor |-> Absent]
    /\ reply = [op |-> "start"]
    /\ pages = <<>>

WalkNext == list_next_page

\* The client goes on while there is a next page to ask for.
WalkSpec == WalkInit /\ [][WalkNext]_vars /\ WF_vars(list_next_page)

---------------------------------------------------------------------------
\* The pages of a client, one after the other.
RECURSIVE Flatten(_)
Flatten(ps) == IF ps = <<>> THEN <<>> ELSE Head(ps) \o Flatten(Tail(ps))

\* s is the beginning of t
IsPrefix(s, t) == Len(s) <= Len(t) /\ s = SubSeq(t, 1, Len(s))

\* the latest reply is a page of the list
IsPage == reply.op = "list_servers" /\ reply.resp.status = 200

\* the page of the latest reply holds the last server of the list
HoldsLastServer ==
    \E k \in 1..Len(reply.resp.servers) :
        reply.resp.servers[k].id = FAKE_SERVERS[Len(FAKE_SERVERS)].id

\* C25: for every limit from 1 to 100, a client that lists with no cursor
\* and then follows next_cursor makes at most one call per server and
\* reaches a page whose next_cursor is null; at every moment the pages it
\* has, put end to end, are a beginning of the server list, and when
\* next_cursor is null they are the whole list, every server once and in
\* order; next_cursor is null exactly on the page that holds the last
\* server, and on every other page it is the id of the page's last server.
C25_PaginationComplete ==
    /\ [](Len(pages) <= Len(FAKE_SERVERS))
    /\ <>(IsPage /\ reply.resp.metadata.next_cursor = Absent)
    /\ [](IsPrefix(Flatten(pages), FAKE_SERVERS))
    /\ [](reply.op = "list_servers" =>
            /\ IsPage
            /\ reply.resp.metadata.next_cursor = Absent
                   <=> HoldsLastServer
            /\ reply.resp.metadata.next_cursor = Absent
                   => Flatten(pages) = FAKE_SERVERS
            /\ ~HoldsLastServer =>
                   /\ reply.resp.servers # <<>>
                   /\ reply.resp.metadata.next_cursor =
                         Present(reply.resp.servers[
                                     Len(reply.resp.servers)].id))

\* a walk of three pages has reached its last page
C25_Witness ==
    /\ IsPage
    /\ reply.resp.metadata.next_cursor = Absent
    /\ Len(pages) = 3
    /\ Len(pages[1]) = 4
    /\ Flatten(pages) = FAKE_SERVERS

\* C26: the registry is read-only and reproducible: whatever requests came
\* before, FAKE_SERVERS is the list the module defined, and a list_servers
\* reply is the one that list gives for the same limit and cursor, every
\* field of every entry included.
C26_ReadOnlyRegistry ==
    /\ FAKE_SERVERS = InitialServers
    /\ reply.op = "list_servers" =>
          reply.resp = ListServers(InitialServers, reply.limit, reply.cursor)

\* C27: for every limit up to 100, zero and negative limits included, and
\* every cursor, list_servers returns a page of at most limit entries, with
\* metadata.count the number of entries of the page and a next_cursor that
\* is null or the id of an entry of the page.
C27_PageWithinLimit ==
    reply.op = "list_servers" /\ reply.limit <= LimitMax =>
        /\ reply.resp.status = 200
        /\ Len(reply.resp.servers) <= reply.limit
        /\ reply.resp.metadata.count = Len(reply.resp.servers)
        /\ reply.resp.metadata.next_cursor # Absent =>
               \E k \in 1..Len(reply.resp.servers) :
                   reply.resp.servers[k].id =
                       reply.resp.metadata.next_cursor[1]

---------------------------------------------------------------------------
\* The random tool server (eval/src/mcpproxy_eval/servers/random.py).

\* the integer arguments of the tool calls go from -MaxArg to MaxArg
MaxArg == 6

\* a % b of Python for b other than 0: the result has the sign of b
PyMod(a, b) == IF b > 0 THEN a % b ELSE 0 - ((0 - a) % (0 - b))

\* Lines 7-12: the modulo of line 11 raises ZeroDivisionError when
\* max_val - min_val + 1 is 0, and the tool call fails.
RandomInteger(min_val, max_val) ==
    IF max_val - min_val + 1 = 0
    THEN [error |-> "ZeroDivisionError"]
    ELSE [min |-> min_val, max |-> max_val,
          result |-> PyMod(min_val + max_val, max_val - min_val + 1)
                        + min_val]

\* Lines 7-12: the tool call
random_integer ==
    /\ reply.op = "start"
    /\ reply' = [op |-> "random_integer",
                 resp |-> RandomInteger(args.min_val, args.max_val)]
    /\ UNCHANGED <<FAKE_SERVERS, args, pages, oauthMock>>

\* Line 8: a call with any two integers
RandomInit ==
    /\ MockInit(EmptyDict)
    /\ FAKE_SERVERS = InitialServers
    /\ \E min_val \in (0 - MaxArg)..MaxArg, max_val \in (0 - MaxArg)..MaxArg :
          args = [min_val |-> min_val, max_val |-> max_val]
    /\ reply = [op |-> "start"]
    /\ pages = <<>>

RandomNext == random_integer

RandomSpec == RandomInit /\ [][RandomNext]_vars

\* C28: random_integer answers every pair of integers without an error,
\* with a result from min_val to max_val inclusive that is the value the
\* formula of line 11 gives for the two arguments.
C28_RandomInRange ==
    reply.op = "random_integer" =>
        /\ DOMAIN reply.resp = {"min", "max", "result"}
        /\ args.min_val <= reply.resp.result
        /\ reply.resp.result <= args.max_val

---------------------------------------------------------------------------
\* The dice tool server (eval/src/mcpproxy_eval/servers/dice.py).

\* Line 28: the fewest sides of a die
MinSides == 2
\* Line 32: the most dice of one call
MaxDice == 20

\* the product itself, not reduced modulo sides
Roll_NoModulo(sides, count, i) == (sides * count * (i + 1)) + 1

\* Line 39: the roll at position i of range(count), for sides >= 2
Roll(sides, count, i) == ((sides * count * (i + 1)) % sides) + 1

\* sum() of a list of integers
RECURSIVE Sum(_)
Sum(s) == IF s = <<>> THEN 0 ELSE Head(s) + Sum(Tail(s))

\* str(n) of an integer
IntStr(n) == IF n < 0 THEN <<"-">> \o FormatInt(0 - n) ELSE FormatInt(n)

\* Line 50
DiceNotation(sides, count, modifier) ==
    IntStr(count) \o <<"d">> \o IntStr(sides)
        \o (IF modifier > 0 THEN <<"+">> \o IntStr(modifier)
            ELSE IF modifier < 0 THEN IntStr(modifier)
            ELSE <<>>)

\* Lines 12-51: the result of the tool, or the ValueError it raises
RollDice(sides, count, modifier) ==
    IF sides < MinSides
    THEN [error |-> "ValueError",
          message |-> "Dice must have at least 2 sides"]
    ELSE IF count < 1
    THEN [error |-> "ValueError", message |-> "Must roll at least 1 die"]
    ELSE IF count > MaxDice
    THEN [error |-> "ValueError",
          message |-> "Cannot roll more than 20 dice at once"]
    ELSE LET rolls == [k \in 1..count |-> Roll(sides, count, k - 1)]
             total == Sum(rolls)
         IN  [rolls |-> rolls,
              total |-> total,
              modifier |-> modifier,
              modified_total |-> total + modifier,
              dice_notation |-> DiceNotation(sides, count, modifier)]

\* Lines 12-51: the tool call
roll_dice ==
    /\ reply.op = "start"
    /\ reply' = [op |-> "roll_dice",
                 resp |-> RollDice(args.sides, args.count, args.modifier)]
    /\ UNCHANGED <<FAKE_SERVERS, args, pages, oauthMock>>

\* Lines 13-17: a call with any three integers, the counts on both sides of
\* the two limits of lines 30 and 32
DiceInit ==
    /\ MockInit(EmptyDict)
    /\ FAKE_SERVERS = InitialServers
    /\ \E sides \in (0 - MaxArg)..MaxArg,
          count \in (0 - 1)..(MaxDice + 1),
          modifier \in (0 - MaxArg)..MaxArg :
          args = [sides |-> sides, count |-> count, modifier |-> modifier]
    /\ reply = [op |-> "start"]
    /\ pages = <<>>

DiceNext == roll_dice

DiceSpec == DiceInit /\ [][DiceNext]_vars

\* the elements of a sequence added up from the last to the first
RECURSIVE AddedUp(_, _)
AddedUp(s, n) == IF n = 0 THEN 0 ELSE s[n] + AddedUp(s, n - 1)

\* C29: for sides >= 2 and 1 <= count <= 20, with any modifier, roll_dice
\* returns exactly count rolls, each from 1 to sides, with total the sum
\* of the rolls and modified_total the total plus the modifier; for
\* sides < 2, count < 1 or count > 20 it raises an error and returns no
\* rolls.
C29_RollsWithinSides ==
    reply.op = "roll_dice" =>
        IF args.sides >= 2 /\ 1 <= args.count /\ args.count <= 20
        THEN /\ "error" \notin DOMAIN reply.resp
             /\ Len(reply.resp.rolls) = args.count
             /\ \A k \in 1..Len(reply.resp.rolls) :
                   1 <= reply.resp.rolls[k]
                       /\ reply.resp.rolls[k] <= args.sides
             /\ reply.resp.total =
                   AddedUp(reply.resp.rolls, Len(reply.resp.rolls))
             /\ reply.resp.modified_total =
                   reply.resp.total + args.modifier
        ELSE /\ "error" \in DOMAIN reply.resp
             /\ "rolls" \notin DOMAIN reply.resp

\* twenty two-sided dice rolled with a negative modifier
C29_Witness ==
    /\ reply.op = "roll_dice"
    /\ args.sides = 2
    /\ args.count = 20
    /\ args.modifier < 0
    /\ Len(reply.resp.rolls) = 20
    /\ reply.resp.modified_total < reply.resp.total

---------------------------------------------------------------------------
\* The Morse tool server (eval/src/mcpproxy_eval/servers/morse.py).

\* the texts tried have one character of any kind, between two runs of at
\* most MaxPad spaces and slashes
MaxPad == 2

\* Lines 8-20: the items of the dict, in the order of the source
MORSE_CODE ==
    <<<<"A", <<".", "-">>>>,
      <<"B", <<"-", ".", ".", ".">>>>,
      <<"C", <<"-", ".", "-", ".">>>>,
      <<"D", <<"-", ".", ".">>>>,
      <<"E", <<".">>>>,
      <<"F", <<".", ".", "-", ".">>>>,
      <<"G", <<"-", "-", ".">>>>,
      <<"H", <<".", ".", ".", ".">>>>,
      <<"I", <<".", ".">>>>,
      <<"J", <<".", "-", "-", "-">>>>,
      <<"K", <<"-", ".", "-">>>>,
      <<"L", <<".", "-", ".", ".">>>>,
      <<"M", <<"-", "-">>>>,
      <<"N", <<"-", ".">>>>,
      <<"O", <<"-", "-", "-">>>>,
      <<"P", <<".", "-", "-", ".">>>>,
      <<"Q", <<"-", "-", ".", "-">>>>,
      <<"R", <<".", "-", ".">>>>,
      <<"S", <<".", ".", ".">>>>,
      <<"T", <<"-">>>>,
      <<"U", <<".", ".", "-">>>>,
      <<"V", <<".", ".", ".", "-">>>>,
      <<"W", <<".", "-", "-">>>>,
      <<"X", <<"-", ".", ".", "-">>>>,
      <<"Y", <<"-", ".", "-", "-">>>>,
      <<"Z", <<"-", "-", ".", ".">>>>,
      <<"1", <<".", "-", "-", "-", "-">>>>,
      <<"2", <<".", ".", "-", "-", "-">>>>,
      <<"3", <<".", ".", ".", "-", "-">>>>,
      <<"4", <<".", ".", ".", ".", "-">>>>,
      <<"5", <<".", ".", ".", ".", ".">>>>,
      <<"6", <<"-", ".", ".", ".", ".">>>>,
      <<"7", <<"-", "-", ".", ".", ".">>>>,
      <<"8", <<"-", "-", "-", ".", ".">>>>,
      <<"9", <<"-", "-", "-", "-", ".">>>>,
      <<"0", <<"-", "-", "-", "-", "-">>>>,
      <<" ", <<"/">>>>,
      <<".", <<".", "-", ".", "-", ".", "-">>>>,
      <<",", <<"-", "-", ".", ".", "-", "-">>>>,
      <<"?", <<".", ".", "-", "-", ".", ".">>>>,
      <<"'", <<".", "-", "-", "-", "-", ".">>>>,
      <<"!", <<"-", ".", "-", ".", "-", "-">>>>,
      <<"/", <<"-", ".", ".", "-", ".">>>>,
      <<"(", <<"-", ".", "-", "-", ".">>>>,
      <<")", <<"-", ".", "-", "-", ".", "-">>>>,
      <<"&", <<".", "-", ".", ".", ".">>>>,
      <<":", <<"-", "-", "-", ".", ".", ".">>>>,
      <<";", <<"-", ".", "-", ".", "-", ".">>>>,
      <<"=", <<"-", ".", ".", ".", "-">>>>,
      <<"+", <<".", "-", ".", "-", ".">>>>,
      <<"-", <<"-", ".", ".", ".", ".", "-">>>>,
      <<"_", <<".", ".", "-", "-", ".", "-">>>>,
      <<"\"", <<".", "-", ".", ".", "-", ".">>>>,
      <<"$", <<".", ".", ".", "-", ".", ".", "-">>>>,
      <<"@", <<".", "-", "-", ".", "-", ".">>>>>>

\* char in MORSE_CODE
InMorseCode(char) ==
    \E i \in 1..Len(MORSE_CODE) : MORSE_CODE[i][1] = char

\* MORSE_CODE[char]: of the items with one key a dict keeps the last
MorseOf(char) ==
    LET hits == {i \in 1..Len(MORSE_CODE) : MORSE_CODE[i][1] = char}
    IN  MORSE_CODE[CHOOSE i \in hits : \A j \in hits : j <= i][2]

\* Line 23: morse_char in REVERSE_MORSE_CODE
InReverse(morse_char) ==
    \E i \in 1..Len(MORSE_CODE) : MORSE_CODE[i][2] = morse_char

\* Line 23: REVERSE_MORSE_CODE[morse_char]; the comprehension keeps, of
\* the keys with one code, the last
ReverseOf(morse_char) ==
    LET hits == {i \in 1..Len(MORSE_CODE) : MORSE_CODE[i][2] = morse_char}
    IN  MORSE_CODE[CHOOSE i \in hits : \A j \in hits : j <= i][1]

\* the letters that upper() changes, each before its upper-case form
Letters ==
    <<"a", "A", "b", "B", "c", "C", "d", "D", "e", "E", "f", "F", "g", "G",
      "h", "H", "i", "I", "j", "J", "k", "K", "l", "L", "m", "M", "n", "N",
      "o", "O", "p", "P", "q", "Q", "r", "R", "s", "S", "t", "T", "u", "U",
      "v", "V", "w", "W", "x", "X", "y", "Y", "z", "Z">>

\* Line 43: upper() of one character, for the ASCII characters
UpperChar(c) ==
    IF \E i \in 1..(Len(Letters) \div 2) : Letters[2 * i - 1] = c
    THEN Letters[2 * (CHOOSE i \in 1..(Len(Letters) \div 2) :
                         Letters[2 * i - 1] = c)]
    ELSE c

\* Line 43: text.upper()
UpperText(text) == [k \in 1..Len(text) |-> UpperChar(text[k])]

\* the parts put end to end with nothing between them
RECURSIVE JoinSpace_Bare(_)
JoinSpace_Bare(parts) ==
    IF parts = <<>> THEN <<>>
    ELSE Head(parts) \o JoinSpace_Bare(Tail(parts))

\* Line 53: ' '.join(parts)
RECURSIVE JoinSpace(_)
JoinSpace(parts) ==
    IF parts = <<>> THEN <<>>
    ELSE IF Len(parts) = 1 THEN Head(parts)
    ELSE Head(parts) \o <<" ">> \o JoinSpace(Tail(parts))

\* Lines 44-49: what one character of the upper-cased text appends
MorseSymbol(char) ==
    IF InMorseCode(char) THEN MorseOf(char)
    ELSE IF char = " " THEN <<"/">>
    ELSE <<"?">>

\* Lines 25-56
TextToMorse(text) ==
    IF text = <<>>
    THEN [original_text |-> <<>>, morse_code |-> <<>>,
          error |-> "Empty text provided"]
    ELSE LET morse_result ==
                 [k \in 1..Len(text) |-> MorseSymbol(UpperText(text)[k])]
         IN  [original_text |-> text,
              morse_code |-> JoinSpace(morse_result),
              character_count |-> Len(text),
              morse_length |-> Len(morse_result)]

\* Line 76: strip(), for a string whose only white space is the space
RECURSIVE Strip(_)
Strip(s) ==
    IF s = <<>> THEN s
    ELSE IF Head(s) = " " THEN Strip(Tail(s))
    ELSE IF s[Len(s)] = " " THEN Strip(SubSeq(s, 1, Len(s) - 1))
    ELSE s

\* Line 76: split(' '), which keeps the empty strings between two spaces
RECURSIVE SplitSpace(_)
SplitSpace(s) ==
    IF \A k \in 1..Len(s) : s[k] # " "
    THEN <<s>>
    ELSE LET k == CHOOSE k \in 1..Len(s) :
                      s[k] = " " /\ \A j \in 1..(k - 1) : s[j] # " "
         IN  <<SubSeq(s, 1, k - 1)>> \o SplitSpace(SubSeq(s, k + 1, Len(s)))

\* Lines 79-87: decoded_chars
RECURSIVE DecodedChars(_)
DecodedChars(morse_chars) ==
    IF morse_chars = <<>> THEN <<>>
    ELSE LET morse_char == Head(morse_chars)
             rest == DecodedChars(Tail(morse_chars))
         IN  IF morse_char = <<"/">> THEN <<" ">> \o rest
             ELSE IF InReverse(morse_char)
             THEN <<ReverseOf(morse_char)>> \o rest
             ELSE IF morse_char = <<>> THEN rest
             ELSE <<"?">> \o rest

\* Lines 58-94
MorseToText(morse_code) ==
    IF morse_code = <<>>
    THEN [original_morse |-> <<>>, decoded_text |-> <<>>,
          error |-> "Empty Morse code provided"]
    ELSE LET morse_chars == SplitSpace(Strip(morse_code))
             decoded_chars == DecodedChars(morse_chars)
         IN  [original_morse |-> morse_code,
              decoded_text |-> decoded_chars,
              morse_character_count |-> Len(morse_chars),
              decoded_length |-> Len(decoded_chars)]

\* Lines 25-56: the tool call
text_to_morse ==
    /\ reply.op = "start"
    /\ reply' = [op |-> "text_to_morse", resp |-> TextToMorse(args.text)]
    /\ UNCHANGED <<FAKE_SERVERS, args, pages, oauthMock>>

\* Lines 58-94: the tool called with the morse_code text_to_morse returned
morse_to_text ==
    /\ reply.op = "text_to_morse"
    /\ reply' = [op |-> "morse_to_text",
                 morse_code |-> reply.resp.morse_code,
                 resp |-> MorseToText(reply.resp.morse_code)]
    /\ UNCHANGED <<FAKE_SERVERS, args, pages, oauthMock>>

\* the runs of spaces and slashes around the character
RECURSIVE Pads(_)
Pads(n) ==
    IF n = 0 THEN {<<>>}
    ELSE Pads(n - 1) \cup {<<c>> \o p : c \in {" ", "/"},
                                        p \in Pads(n - 1)}

\* the character between them: every key of the table, every lower-case
\* letter, and a character the table does not have
MiddleChars ==
    {MORSE_CODE[i][1] : i \in 1..Len(MORSE_CODE)}
        \cup {Letters[i] : i \in 1..Len(Letters)} \cup {"#"}

\* Line 26: a call with the empty text, or with a text of spaces and
\* slashes around one character
MorseInit ==
    /\ MockInit(EmptyDict)
    /\ FAKE_SERVERS = InitialServers
    /\ \/ args = [text |-> <<>>]
       \/ \E before \in Pads(MaxPad), c \in MiddleChars,
             after \in Pads(MaxPad) :
             args = [text |-> before \o <<c>> \o after]
    /\ reply = [op |-> "start"]
    /\ pages = <<>>

MorseNext ==
    \/ text_to_morse
    \/ morse_to_text

MorseSpec == MorseInit /\ [][MorseNext]_vars

\* C30: for every non-empty text whose characters, upper-cased, are all in
\* the MORSE_CODE table, morse_to_text of the morse_code that text_to_morse
\* returned has the upper-cased text as its decoded_text, spaces at the
\* start, at the end and next to each other included.
C30_MorseRoundTrip ==
    (/\ reply.op = "morse_to_text"
     /\ args.text # <<>>
     /\ \A k \in 1..Len(args.text) : InMorseCode(UpperChar(args.text[k])))
        => /\ "error" \notin DOMAIN reply.resp
           /\ reply.resp.decoded_text = UpperText(args.text)

\* the round trip of "  s  ", and of " / s/ "
C30_Witness ==
    /\ reply.op = "morse_to_text"
    /\ args.text \in {<<" ", " ", "s", " ", " ">>,
                       <<" ", "/", "s", "/", " ">>}
    /\ reply.resp.decoded_text \in {<<" ", " ", "S", " ", " ">>,
                                     <<" ", "/", "S", "/", " ">>}

====
